---- MODULE Spec2Model ----
(***************************************************************************)
(* Download admission queue of acer-pal (src/main.py).                     *)
(*                                                                         *)
(* Threads of one worker process:                                          *)
(*   - a request thread per job: creates the job record and calls          *)
(*     queue_download (start_download, or the season batch worker);        *)
(*   - a managed_download_thread per admitted job: download_file_thread,   *)
(*     then the finally block (discard under queue_lock, then              *)
(*     process_download_queue under queue_lock again).                     *)
(* Job ids are uuid4 strings in the code; here they are 1..MaxJobs, taken  *)
(* in the order in which queue_download acquires queue_lock (ids carry no  *)
(* data, so this fixes one representative of each permutation class).      *)
(***************************************************************************)
EXTENDS Integers, Sequences, FiniteSets, TLC

VARIABLES
    download_progress,  \* job id -> record (the dict of main.py:68)
    download_queue,     \* FIFO of <<download_id, url, filename>> (main.py:74)
    active_downloads,   \* set of job ids (main.py:75)
    queue_lock,         \* holder of threading.Lock (main.py:76), or NoThread
    req_pc,             \* position of the request thread that submits job j
    dl_pc,              \* position of managed_download_thread(j)
    dl_item,            \* item held by the drain loop of thread j (main.py:849)
    launches,           \* number of managed_download_thread started for job j
    drain_calls,        \* number of process_download_queue calls made by thread j
    admits,             \* jobs admitted by the drain of thread j currently running
    had_pending,        \* download_queue was non-empty when the drain of thread j began
    escaped,            \* an exception left download_file_thread of job j
    ENABLE_AUTO_MOVE,   \* configuration flag (main.py:65), fixed per run
    snapshot,           \* contents of app_data.json, or NoFile
    restarts,           \* number of process restarts so far
    faults,             \* downloads that left the success path so far
    received,           \* sizes of the chunks iter_content has yielded to job j
    raised,             \* exception raised inside download_file_thread of job j
    search_history,     \* recent queries, newest first (main.py:70)
    data_to_save,       \* local data_to_save of the save_data call of process p
    save_pc,            \* position of process p inside save_data
    lock_file,          \* inode linked at app_data.lock, NoInode if none
    lock_fd,            \* inode that lock_fd of process p has open, or NoInode
    flocked,            \* the open lock_fd of process p holds the flock
    temp_file,          \* contents of app_data.tmp, or NoFile
    save_log,           \* what each finished save_data call of process p did
    temp_open,          \* where the file process p has open for writing is linked
    load_result,        \* how the load_data call of LoadData ended, "none" before it
    searched,           \* queries add_to_search_history was called with, in call order
    episodes_data,      \* request.form.get('episodes_data') of the season request (main.py:639)
    flashed,            \* message flashed to the user by the season request
    season_processing,  \* processing_id -> record (main.py:540)
    batch_pc,           \* position of process_season_downloads_background
    listing,            \* what list_downloads has read of the record of a job so far
    app_config,         \* app.config entries set after import
    session,            \* keys of the Flask session of the one client
    request,            \* the request served last
    response,           \* the response to it
    fs_calls,           \* filesystem calls made while serving it
    exit_read,          \* what save_data has copied so far while the process exits
    launched_before,    \* launches of each job in the processes that have ended
    resolved,           \* per processed batch entry: how it ended and the job created for it
    queue_status,       \* the queue_status dict of list_downloads while it is built
    endpoint,           \* the Endpoint object that was constructed
    fetched,            \* how its fetch() ended
    history_calls       \* add_to_search_history calls of the request threads

vars == <<download_progress, download_queue, active_downloads, queue_lock,
          req_pc, dl_pc, dl_item, launches, drain_calls, admits, had_pending,
          escaped, ENABLE_AUTO_MOVE, snapshot, restarts, faults, received,
          raised, search_history, data_to_save, save_pc, lock_file, lock_fd, flocked,
          temp_file, save_log, temp_open, load_result,
          searched,
          episodes_data,
          flashed,
          season_processing,
          batch_pc,
          listing,
          app_config,
          session,
          request,
          response,
          fs_calls,
          exit_read,
          launched_before,
          resolved,
          queue_status,
          endpoint,
          fetched,
          history_calls>>

\* ---------------------------------------------------------------- bounds
MaxJobs == 6
MaxRestarts == 1
MaxFinishing == 1   \* threads at once between the end of their stream and their exit
MaxFaults == 1      \* downloads per run that hit a network or filesystem failure
MaxInFlight == 2    \* request threads between record creation and queue_download
MaxLength == 3      \* largest content-length a response declares
MaxChunk == 2       \* largest chunk iter_content yields
MaxChunks == 3      \* chunks received per run, by all responses together
MaxObserved == 1    \* chunks followed per run while the whole queue is modelled
MaxDetailJobs == 5  \* jobs submitted per run while chunks are followed
MaxStreaming == 1   \* downloads at once between the response headers and the end of the body
MaxProcs == 2       \* processes sharing app_data.json
MaxSaves == 2       \* save_data calls per process
MaxSavedJobs == 2   \* job records in the memory of a process that saves
MaxQueries == 6     \* different queries a user searches for
MaxSearches == 8    \* add_to_search_history calls per run
MaxEpisodes == 5    \* entries of the episode list of a season request
MaxSegments == 3    \* path segments of a filename in a request

\* ------------------------------------------------------- program constants
MAX_CONCURRENT_DOWNLOADS == 4
HISTORY_LENGTH == 5

Jobs == 1..MaxJobs
NoThread == <<"none", 0>>
NoItem == <<0, 0, 0>>
NoFile == [exists |-> FALSE]
NoInode == 0
None == "None"
NoException == [kind |-> "none", text |-> ""]
NoPayload == [form |-> "missing", items |-> <<>>]
NoFlash == [category |-> "none", message |-> ""]
NoRecord == [status |-> "none"]
NoName == [absolute |-> FALSE, segments |-> <<>>]
NoRequest == [route |-> "", location |-> "", filename |-> NoName, cookie |-> {}]
NoResponse == [status |-> 0, to |-> ""]
NoRead == [read |-> FALSE]
NoStatus == [read |-> <<>>]
NoEndpoint == [constructed |-> FALSE]
NoFetch == [ended |-> "not called"]
NoCall == [pc |-> "idle"]
Callers == {"first", "second"}
NoListing == [before |-> NoRecord, row |-> <<>>, after |-> NoRecord]

\* processes that share the data folder; Self is the one whose memory the
\* variables download_progress, download_queue, active_downloads and
\* search_history hold
Procs == 1..MaxProcs
Self == 1

ReqThread(j) == <<"request", j>>
DlThread(j) == <<"download", j>>

\* direct_download_url and safe_filename handed to queue_download for job j
Url(j) == <<"url", j>>
Filename(j) == <<"file", j>>
Item(j) == <<j, Url(j), Filename(j)>>

\* ----------------------------------------------------------------- helpers
\* status of job j, "absent" while download_progress has no such key
Status(j) == IF j \in DOMAIN download_progress
             THEN download_progress[j].status ELSE "absent"

SetStatus(dp, j, s) == [dp EXCEPT ![j].status = s]

\* ids of the items waiting in download_queue, in queue order
RECURSIVE PendingIdsOf(_)
PendingIdsOf(q) == IF q = <<>> THEN <<>>
                   ELSE <<Head(q)[1]>> \o PendingIdsOf(Tail(q))
PendingIds == PendingIdsOf(download_queue)
PendingSet == {PendingIds[k] : k \in 1..Len(PendingIds)}

\* mutant: queue_download and the drain run without queue_lock
CanAcquireUnlocked(l) == TRUE

\* threading.Lock.acquire succeeds only when nobody holds the lock
CanAcquire(l) == l = NoThread

\* mutant: the capacity test written with <= instead of <
HasSlotOffByOne(a) == Cardinality(a) <= MAX_CONCURRENT_DOWNLOADS

\* len(active_downloads) < MAX_CONCURRENT_DOWNLOADS (main.py:830, 847)
HasSlot(a) == Cardinality(a) < MAX_CONCURRENT_DOWNLOADS

\* queue.Queue: put appends at the tail, get_nowait takes the head
\* mutant: the item is not stored
QueuePutDropped(q, it) == q
QueuePut(q, it) == Append(q, it)
\* mutant: the drain takes the newest item instead of the oldest
QueueGetNewest(q) == q[Len(q)]
QueueGet(q) == Head(q)
\* mutant: the drain reads the head without removing it
QueueRestPeek(q) == q
QueueRest(q) == Tail(q)

\* ------------------------------------------------------------------- Init
\* nothing of what the specifications further below follow has happened
SideInit ==
    /\ load_result = "none"
    /\ searched = <<>>
    /\ episodes_data = NoPayload
    /\ flashed = NoFlash
    /\ season_processing = <<>>
    /\ batch_pc = "none"
    /\ listing = NoListing
    /\ app_config = <<>>
    /\ session = {}
    /\ request = NoRequest
    /\ response = NoResponse
    /\ fs_calls = <<>>
    /\ exit_read = NoRead
    /\ launched_before = [j \in Jobs |-> 0]
    /\ resolved = <<>>
    /\ queue_status = NoStatus
    /\ endpoint = NoEndpoint
    /\ fetched = NoFetch
    /\ history_calls = [t \in Callers |-> NoCall]

Init ==
    /\ download_progress = <<>>
    /\ download_queue = <<>>
    /\ active_downloads = {}
    /\ queue_lock = NoThread
    /\ req_pc = [j \in Jobs |-> "none"]
    /\ dl_pc = [j \in Jobs |-> "none"]
    /\ dl_item = [j \in Jobs |-> NoItem]
    /\ launches = [j \in Jobs |-> 0]
    /\ drain_calls = [j \in Jobs |-> 0]
    /\ admits = [j \in Jobs |-> 0]
    /\ had_pending = [j \in Jobs |-> FALSE]
    /\ escaped = [j \in Jobs |-> FALSE]
    /\ ENABLE_AUTO_MOVE \in BOOLEAN
    /\ snapshot = NoFile
    /\ restarts = 0
    /\ faults = 0
    /\ received = [j \in Jobs |-> <<>>]
    /\ raised = [j \in Jobs |-> NoException]
    /\ search_history = <<>>
    /\ data_to_save = [p \in Procs |-> NoFile]
    /\ save_pc = [p \in Procs |-> "idle"]
    /\ lock_file = NoInode
    /\ lock_fd = [p \in Procs |-> NoInode]
    /\ flocked = [p \in Procs |-> FALSE]
    /\ temp_file = NoFile
    /\ temp_open = [p \in Procs |-> "closed"]
    /\ save_log = [p \in Procs |-> <<>>]
    /\ SideInit

queueVars == <<download_queue, active_downloads, queue_lock>>
dlVars == <<dl_pc, dl_item, launches, drain_calls, admits, had_pending, escaped>>
envVars == <<ENABLE_AUTO_MOVE, snapshot, restarts>>
fileVars == <<data_to_save, save_pc, lock_file, lock_fd, flocked, temp_file, save_log,
              temp_open>>
\* state of the handlers that the specifications further below take up
batchVars == <<episodes_data, flashed, season_processing, batch_pc, resolved>>
webVars == <<app_config, session, request, response, fs_calls>>
exitVars == <<exit_read, launched_before>>
endpointVars == <<endpoint, fetched>>
lateVars == <<queue_status, endpointVars, history_calls>>
sideVars == <<load_result, searched, batchVars, listing, webVars, exitVars, lateVars>>
\* what the actions of one handler leave alone among them
exceptLoad == <<searched, batchVars, listing, webVars, exitVars, lateVars>>
exceptHistory == <<load_result, batchVars, listing, webVars, exitVars, lateVars>>
exceptBatch == <<load_result, searched, listing, webVars, exitVars, lateVars>>
exceptList == <<load_result, searched, batchVars, webVars, exitVars, lateVars>>
exceptWeb == <<load_result, searched, batchVars, listing, exitVars, lateVars>>
exceptStatus == <<load_result, searched, batchVars, listing, webVars, exitVars,
                 endpointVars,
                   history_calls>>
exceptCalls == <<load_result, batchVars, listing, webVars, exitVars, queue_status,
                endpointVars>>
exceptEndpoint == <<load_result, searched, batchVars, listing, webVars, exitVars,
                   queue_status,
                   history_calls>>
exceptExit == <<load_result, searched, batchVars, listing, webVars, lateVars>>
auxVars == <<received, raised, search_history, fileVars, sideVars>>

\* outcomes of a download that are failures of the network or the filesystem
FaultOutcomes == {"network_error", "exception", "missing", "move_failed", "escape"}
FaultBudget(outcome) ==
    IF outcome \in FaultOutcomes
    THEN faults < MaxFaults /\ faults' = faults + 1
    ELSE faults' = faults

\* ------------------------------------------------------ request threads
\* request threads of this process between record creation and the return
\* of queue_download ("gone": the thread ended with an earlier process)
InFlight == {i \in Jobs : req_pc[i] \notin {"none", "done", "gone"}}

\* start_download (main.py:517-518) creates the record with status
\* 'starting'; the season worker (main.py:586-600) creates it 'queued'.
CreateJob(j, initial) ==
    /\ req_pc[j] = "none"
    /\ j \notin DOMAIN download_progress
    /\ \A i \in Jobs : i < j => req_pc[i] # "none"
    /\ Cardinality(InFlight) < MaxInFlight
    /\ download_progress' = (j :> [status |-> initial]) @@ download_progress
    /\ req_pc' = [req_pc EXCEPT ![j] = "created"]
    /\ UNCHANGED <<queueVars, dlVars, envVars, auxVars, faults>>

\* queue_download: `with queue_lock:` and the test of main.py:830
QueueDownloadEnter(j) ==
    /\ req_pc[j] = "created"
    /\ \A i \in Jobs : i < j => req_pc[i] # "created"
    /\ CanAcquire(queue_lock)
    /\ queue_lock' = ReqThread(j)
    /\ req_pc' = [req_pc EXCEPT ![j] =
                    IF HasSlot(active_downloads) THEN "q_add" ELSE "q_put"]
    /\ UNCHANGED <<download_progress, download_queue, active_downloads,
                   dlVars, envVars, auxVars, faults>>

\* main.py:832
QueueDownloadAdd(j) ==
    /\ req_pc[j] = "q_add"
    /\ active_downloads' = active_downloads \cup {j}
    /\ req_pc' = [req_pc EXCEPT ![j] = "q_launch"]
    /\ UNCHANGED <<download_progress, download_queue, queue_lock, dlVars, envVars, auxVars, faults>>

\* main.py:833-837: status, Thread(...).start(), leave the with block
QueueDownloadLaunch(j) ==
    /\ req_pc[j] = "q_launch"
    /\ download_progress' = SetStatus(download_progress, j, "downloading")
    /\ dl_pc' = [dl_pc EXCEPT ![j] = "stream"]
    /\ launches' = [launches EXCEPT ![j] = @ + 1]
    /\ queue_lock' = NoThread
    /\ req_pc' = [req_pc EXCEPT ![j] = "done"]
    /\ UNCHANGED <<download_queue, active_downloads, dl_item, drain_calls,
                   admits, had_pending, escaped, envVars, auxVars, faults>>

\* main.py:840
QueueDownloadPut(j) ==
    /\ req_pc[j] = "q_put"
    /\ download_queue' = QueuePut(download_queue, Item(j))
    /\ req_pc' = [req_pc EXCEPT ![j] = "q_status"]
    /\ UNCHANGED <<download_progress, active_downloads, queue_lock, dlVars, envVars, auxVars, faults>>

\* main.py:841-842, leave the with block
QueueDownloadQueued(j) ==
    /\ req_pc[j] = "q_status"
    /\ download_progress' = SetStatus(download_progress, j, "queued")
    /\ queue_lock' = NoThread
    /\ req_pc' = [req_pc EXCEPT ![j] = "done"]
    /\ UNCHANGED <<download_queue, active_downloads, dlVars, envVars, auxVars, faults>>

\* ------------------------------------------------- download threads
\* managed_download_thread wraps download_file_thread in try/finally, so
\* every way out of download_file_thread continues in the finally block.
\* mutant: discard and drain follow the call without try/finally, so an
\* exception leaving download_file_thread ends the thread before them
AfterDownloadNoFinally(outcome) ==
    IF outcome = "escape" THEN "done" ELSE "finally"

AfterDownload(outcome) == "finally"

\* threads whose stream has ended and that have not yet left process_download_queue
Finishing == {i \in Jobs : dl_pc[i] \notin {"none", "stream", "chunks", "done"}}

StreamOutcomes == {"ok", "network_error", "exception"}

\* mutant: a failed download is put back to 'queued'
StatusAfterStreamRequeue(outcome) == IF outcome = "ok" THEN "moving" ELSE "queued"

\* main.py:898 after the stream; the handlers of main.py:920-923 otherwise
StatusAfterStream(outcome) == IF outcome = "ok" THEN "moving" ELSE "error"

\* main.py:872-898: the status write of 872 repeats the value the admission
\* set, the request and the chunk loop follow; a stream ends only while
\* fewer than MaxFinishing other threads are between stream end and exit.
DownloadStream(j, outcome) ==
    /\ dl_pc[j] = "stream"
    /\ Cardinality(Finishing) < MaxFinishing
    /\ download_progress' =
           SetStatus(download_progress, j, StatusAfterStream(outcome))
    /\ dl_pc' = [dl_pc EXCEPT ![j] =
                    IF outcome = "ok" THEN "post" ELSE AfterDownload(outcome)]
    /\ UNCHANGED <<queueVars, req_pc, dl_item, launches, drain_calls, admits,
                   had_pending, escaped, envVars, auxVars>>
    /\ FaultBudget(outcome)

\* What can happen after the body was streamed (main.py:901-918):
\*   "missing"     os.path.exists(file_path) is false
\*   "moved"       auto-move on, shutil.move succeeded
\*   "move_failed" auto-move on, shutil.move raised
\*   "kept"        auto-move off
PostOutcomes(auto_move) ==
    {"missing"} \cup (IF auto_move THEN {"moved", "move_failed"} ELSE {"kept"})

StatusAfterPost(old, outcome) ==
    CASE outcome = "missing" -> "error"
      [] outcome = "moved" -> "completed"
      [] OTHER -> old

DownloadPost(j, outcome) ==
    /\ dl_pc[j] = "post"
    /\ outcome \in PostOutcomes(ENABLE_AUTO_MOVE)
    /\ download_progress' =
           SetStatus(download_progress, j, StatusAfterPost(Status(j), outcome))
    /\ dl_pc' = [dl_pc EXCEPT ![j] = AfterDownload(outcome)]
    /\ UNCHANGED <<queueVars, req_pc, dl_item, launches, drain_calls, admits,
                   had_pending, escaped, envVars, auxVars>>
    /\ FaultBudget(outcome)

\* An exception that is not caught by `except Exception` (main.py:920-923)
\* leaves download_file_thread without touching the job record.
DownloadEscape(j) ==
    /\ dl_pc[j] \in {"stream", "post"}
    /\ escaped' = [escaped EXCEPT ![j] = TRUE]
    /\ dl_pc' = [dl_pc EXCEPT ![j] = AfterDownload("escape")]
    /\ UNCHANGED <<download_progress, queueVars, req_pc, dl_item, launches,
                   drain_calls, admits, had_pending, envVars, auxVars>>
    /\ FaultBudget("escape")

\* mutant: the finally block empties the active set
DiscardAll(active, id) == {}

\* set.discard(id)
Discard(active, id) == active \ {id}

\* main.py:865-866: with queue_lock: active_downloads.discard(download_id)
ManagedDiscard(j) ==
    /\ dl_pc[j] = "finally"
    /\ CanAcquire(queue_lock)
    /\ active_downloads' = Discard(active_downloads, j)
    /\ dl_pc' = [dl_pc EXCEPT ![j] = "drain"]
    /\ UNCHANGED <<download_progress, download_queue, queue_lock, req_pc,
                   dl_item, launches, drain_calls, admits, had_pending,
                   escaped, envVars, auxVars, faults>>

\* main.py:868 and 846: call process_download_queue, take queue_lock
ProcessQueueEnter(j) ==
    /\ dl_pc[j] = "drain"
    /\ CanAcquire(queue_lock)
    /\ queue_lock' = DlThread(j)
    /\ drain_calls' = [drain_calls EXCEPT ![j] = @ + 1]
    /\ had_pending' = [had_pending EXCEPT ![j] = download_queue # <<>>]
    /\ dl_pc' = [dl_pc EXCEPT ![j] = "dr_loop"]
    /\ UNCHANGED <<download_progress, download_queue, active_downloads, req_pc,
                   dl_item, launches, admits, escaped, envVars, auxVars, faults>>

\* mutant: the loop test asks for more than one waiting item
DrainConditionStrict == HasSlot(active_downloads) /\ Len(download_queue) > 1

\* loop test of main.py:847
DrainCondition == HasSlot(active_downloads) /\ download_queue # <<>>

\* main.py:849
ProcessQueueGet(j) ==
    /\ dl_pc[j] = "dr_loop"
    /\ DrainCondition
    /\ dl_item' = [dl_item EXCEPT ![j] = QueueGet(download_queue)]
    /\ download_queue' = QueueRest(download_queue)
    /\ dl_pc' = [dl_pc EXCEPT ![j] = "dr_add"]
    /\ UNCHANGED <<download_progress, active_downloads, queue_lock, req_pc,
                   launches, drain_calls, admits, had_pending, escaped, envVars, auxVars, faults>>

\* main.py:850
ProcessQueueAdd(j) ==
    /\ dl_pc[j] = "dr_add"
    /\ active_downloads' = active_downloads \cup {dl_item[j][1]}
    /\ dl_pc' = [dl_pc EXCEPT ![j] = "dr_launch"]
    /\ UNCHANGED <<download_progress, download_queue, queue_lock, req_pc,
                   dl_item, launches, drain_calls, admits, had_pending,
                   escaped, envVars, auxVars, faults>>

\* main.py:851-855: status, Thread(...).start(), back to the loop test
ProcessQueueLaunch(j) ==
    /\ dl_pc[j] = "dr_launch"
    /\ LET id == dl_item[j][1] IN
        /\ download_progress' = SetStatus(download_progress, id, "downloading")
        /\ dl_pc' = [dl_pc EXCEPT ![j] = "dr_loop", ![id] = "stream"]
        /\ launches' = [launches EXCEPT ![id] = @ + 1]
    /\ admits' = [admits EXCEPT ![j] = @ + 1]
    /\ dl_item' = [dl_item EXCEPT ![j] = NoItem]
    /\ UNCHANGED <<queueVars, req_pc, drain_calls, had_pending, escaped, envVars, auxVars, faults>>

\* loop test false: leave the with block; the thread ends
ProcessQueueExit(j) ==
    /\ dl_pc[j] = "dr_loop"
    /\ ~DrainCondition
    /\ queue_lock' = NoThread
    /\ admits' = [admits EXCEPT ![j] = 0]
    /\ had_pending' = [had_pending EXCEPT ![j] = FALSE]
    /\ dl_pc' = [dl_pc EXCEPT ![j] = "done"]
    /\ UNCHANGED <<download_progress, download_queue, active_downloads, req_pc,
                   dl_item, launches, drain_calls, escaped, envVars, auxVars, faults>>

\* ------------------------------------ download_file_thread, chunk by chunk
\* The actions above take the stream of a download as one step and keep only
\* the status of a record. The actions of this section follow
\* download_file_thread statement by statement on records that also carry
\* progress, downloaded, total, speed, size, filename, start_time, error and
\* the keys added later.

\* progress is a float in the code; here it is the exact fraction <<n, d>>
\* in lowest terms, so that 100 is <<100, 1>>
RECURSIVE GCD(_, _)
GCD(a, b) == IF b = 0 THEN a ELSE GCD(b, a % b)
Ratio(n, d) == LET g == GCD(n, d) IN <<n \div g, d \div g>>
Percent(n) == Ratio(n, 1)

\* format_size (main.py:925-929) of a number of bytes below 1024, which is
\* all the downloads here reach: the number and its unit
FormatSize(bytes_size) == <<bytes_size, "B">>
\* format_speed (main.py:931-932); time is not followed, so the speed is
\* that of a download that has lasted one second
FormatSpeed(downloaded) == <<downloaded, "B/s">>

\* the record of main.py:518 ('starting') and main.py:588-600 ('queued');
\* '0 KB/s' and '0 MB' are written as number and unit like the later values
JobRecord(initial) ==
    [status |-> initial, progress |-> Percent(0), speed |-> <<0, "KB/s">>,
     size |-> <<0, "MB">>, downloaded |-> 0, total |-> 0,
     start_time |-> "time()", filename |-> "safe_filename", error |-> None]

\* mutant: the record is replaced by the update
UpdateReplacing(r, u) == u
\* dict.update: the keys of u are written, the others kept
Update(r, u) ==
    [k \in DOMAIN r \cup DOMAIN u |-> IF k \in DOMAIN u THEN u[k] ELSE r[k]]

CreateJobRecord(j, initial) ==
    /\ req_pc[j] = "none"
    /\ j \notin DOMAIN download_progress
    /\ \A i \in Jobs : i < j => req_pc[i] # "none"
    /\ Cardinality(InFlight) < MaxInFlight
    /\ download_progress' = (j :> JobRecord(initial)) @@ download_progress
    /\ req_pc' = [req_pc EXCEPT ![j] = "created"]
    /\ UNCHANGED <<queueVars, dlVars, envVars, auxVars, faults>>

\* response.headers: <<>> without a content-length, <<n>> with one
Headers == {<<>>} \cup {<<n>> : n \in 0..MaxLength}

\* int(response.headers.get('content-length', 0)), main.py:880
ContentLength(headers) == IF headers = <<>> THEN 0 ELSE headers[1]

\* main.py:894
Progress(downloaded, total_size) ==
    IF total_size > 0 THEN Ratio(downloaded * 100, total_size) ELSE Percent(0)

\* mutant: the counter is assigned the chunk size instead of increased by it
DownloadedAssigned(downloaded, chunk) == chunk

\* main.py:890
Downloaded(downloaded, chunk) == downloaded + chunk

RECURSIVE Sum(_)
Sum(sizes) == IF sizes = <<>> THEN 0 ELSE Head(sizes) + Sum(Tail(sizes))

\* chunks received so far by all downloads
ChunksReceived == Sum([i \in Jobs |-> Len(received[i])])

\* downloads between the response headers and the end of the body
Streaming == {i \in Jobs : dl_pc[i] = "chunks"}

\* main.py:872-882: status, requests.get, raise_for_status, total
DownloadRequest(j, headers) ==
    /\ dl_pc[j] = "stream"
    /\ Cardinality(Streaming) < MaxStreaming
    /\ download_progress' =
           [download_progress EXCEPT
               ![j] = [SetStatus(download_progress, j, "downloading")[j]
                          EXCEPT !.total = ContentLength(headers)]]
    /\ dl_pc' = [dl_pc EXCEPT ![j] = "chunks"]
    /\ UNCHANGED <<queueVars, req_pc, dl_item, launches, drain_calls, admits,
                   had_pending, escaped, envVars, auxVars, faults>>

\* main.py:887-895: one turn of the loop over response.iter_content; an
\* empty chunk is skipped by `if chunk:`. The local `downloaded` starts at 0
\* like the record's field and is written to the field in every turn, and
\* the local total_size was written to the field at main.py:881, so the
\* fields stand for the locals.
DownloadChunk(j, chunk) ==
    /\ dl_pc[j] = "chunks"
    /\ ChunksReceived < MaxChunks
    /\ received' = [received EXCEPT ![j] = Append(@, chunk)]
    /\ LET rec == download_progress[j]
           downloaded == Downloaded(rec.downloaded, chunk)
       IN download_progress' =
              IF chunk > 0
              THEN [download_progress EXCEPT ![j] =
                       Update(rec, [progress |-> Progress(downloaded, rec.total),
                                    downloaded |-> downloaded,
                                    speed |-> FormatSpeed(downloaded),
                                    size |-> FormatSize(rec.total)])]
              ELSE download_progress
    /\ UNCHANGED <<queueVars, req_pc, dlVars, envVars, raised, search_history,
                   fileVars, sideVars, faults>>

\* exceptions raised inside the try block of download_file_thread: a
\* requests.exceptions.RequestException or any other Exception, with the
\* text str(e) gives for it (empty for an exception raised without arguments)
ExceptionKinds == {"RequestException", "Exception"}
ExceptionTexts == {"", "timed out"}

\* mutant: the handlers store a fixed message instead of str(e)
ErrorMessageFixed(kind, text) ==
    IF kind = "RequestException" THEN "Network error" ELSE "Download failed"

\* main.py:921 and 923
ErrorMessage(kind, text) ==
    IF kind = "RequestException" THEN "Network error: " \o text ELSE text

\* main.py:919-923: requests.get, raise_for_status, open, write or
\* iter_content raises and one of the two handlers runs
DownloadRaise(j, kind, text) ==
    /\ dl_pc[j] \in {"stream", "chunks"}
    /\ Cardinality(Finishing) < MaxFinishing
    /\ download_progress' =
           [download_progress EXCEPT ![j] =
               Update(@, [status |-> "error",
                          error |-> ErrorMessage(kind, text)])]
    /\ raised' = [raised EXCEPT ![j] = [kind |-> kind, text |-> text]]
    /\ dl_pc' = [dl_pc EXCEPT ![j] = AfterDownload("exception")]
    /\ UNCHANGED <<queueVars, req_pc, dl_item, launches, drain_calls, admits,
                   had_pending, escaped, envVars, received, search_history,
                   fileVars, sideVars>>
    /\ FaultBudget("exception")

\* main.py:898: the body has been read to its end
DownloadBodyEnd(j) ==
    /\ dl_pc[j] = "chunks"
    /\ Cardinality(Finishing) < MaxFinishing
    /\ download_progress' =
           [download_progress EXCEPT ![j] =
               Update(@, [status |-> "moving", progress |-> Percent(100)])]
    /\ dl_pc' = [dl_pc EXCEPT ![j] = "exists"]
    /\ UNCHANGED <<queueVars, req_pc, dl_item, launches, drain_calls, admits,
                   had_pending, escaped, envVars, auxVars, faults>>

\* mutant: no `return` after the file was found missing
AfterExistsCheckNoReturn(exists, auto_move) ==
    IF auto_move THEN "move" ELSE AfterDownload("kept")

\* where download_file_thread continues after the test of main.py:902
AfterExistsCheck(exists, auto_move) ==
    IF ~exists THEN AfterDownload("missing")
    ELSE IF auto_move THEN "move" ELSE AfterDownload("kept")

\* main.py:902-908: os.path.exists(file_path), then the auto-move test
DownloadExistsCheck(j, exists) ==
    /\ dl_pc[j] = "exists"
    /\ download_progress' =
           IF exists THEN download_progress
           ELSE [download_progress EXCEPT ![j] =
                    Update(@, [status |-> "error",
                               error |-> "File not found after download"])]
    /\ dl_pc' = [dl_pc EXCEPT ![j] = AfterExistsCheck(exists, ENABLE_AUTO_MOVE)]
    /\ UNCHANGED <<queueVars, req_pc, dl_item, launches, drain_calls, admits,
                   had_pending, escaped, envVars, auxVars>>
    /\ FaultBudget(IF exists THEN "exists" ELSE "missing")

\* main.py:909-917: what shutil.move leaves in the record
AfterMove(rec, moved, text) ==
    IF moved
    THEN Update(rec, [status |-> "completed", completed_path |-> "completed"])
    ELSE Update(rec, [move_error |-> text])

DownloadMove(j, moved, text) ==
    /\ dl_pc[j] = "move"
    /\ download_progress' =
           [download_progress EXCEPT ![j] = AfterMove(@, moved, text)]
    /\ dl_pc' = [dl_pc EXCEPT ![j] = AfterDownload("moved")]
    /\ UNCHANGED <<queueVars, req_pc, dl_item, launches, drain_calls, admits,
                   had_pending, escaped, envVars, auxVars>>
    /\ FaultBudget(IF moved THEN "moved" ELSE "move_failed")

\* ------------------------------------------------------------ persistence
\* list(active_downloads) of main.py:93; the order of a set's elements is
\* unspecified and load_data puts them into a set again, so one order is kept.
RECURSIVE SetToList(_)
SetToList(S) == IF S = {} THEN <<>>
                ELSE LET m == CHOOSE x \in S : \A y \in S : x <= y
                     IN <<m>> \o SetToList(S \ {m})

ListToSet(l) == {l[k] : k \in 1..Len(l)}

\* data_to_save of main.py:90-95
DataToSave ==
    [download_progress |-> download_progress,
     download_queue |-> download_queue,
     active_downloads |-> SetToList(active_downloads),
     search_history |-> search_history]

\* any(data_to_save.values()) of main.py:106
AnyData(d) ==
    \/ DOMAIN d.download_progress # {}
    \/ d.download_queue # <<>>
    \/ d.active_downloads # <<>>
    \/ d.search_history # <<>>

\* the test of main.py:106
ShouldSave(d, file) == AnyData(d) \/ file = NoFile

\* save_data with the lock file free: main.py:106-113
SavedFile(file, d) == IF ShouldSave(d, file) THEN d ELSE file

\* load_data into the empty collections of a new process: main.py:140-149
LoadedProgress(file) == IF file = NoFile THEN <<>> ELSE file.download_progress
\* mutant: the saved items are put back in reverse order
LoadedQueueReversed(file) ==
    IF file = NoFile THEN <<>>
    ELSE [k \in 1..Len(file.download_queue) |->
             file.download_queue[Len(file.download_queue) + 1 - k]]
LoadedQueue(file) == IF file = NoFile THEN <<>> ELSE file.download_queue
LoadedActive(file) ==
    IF file = NoFile THEN {} ELSE ListToSet(file.active_downloads)
LoadedHistory(file) == IF file = NoFile THEN <<>> ELSE file.search_history

\* The process exits (atexit runs save_data, main.py:967; its daemon threads
\* die with it) and a new process imports the module: init() calls load_data
\* (main.py:964). No thread of the old process exists in the new one.
Restart ==
    /\ restarts < MaxRestarts
    /\ restarts' = restarts + 1
    /\ snapshot' = SavedFile(snapshot, DataToSave)
    /\ download_progress' = LoadedProgress(snapshot')
    /\ download_queue' = LoadedQueue(snapshot')
    /\ active_downloads' = LoadedActive(snapshot')
    /\ search_history' = LoadedHistory(snapshot')
    /\ queue_lock' = NoThread
    /\ req_pc' = [j \in Jobs |-> IF req_pc[j] = "none" THEN "none" ELSE "gone"]
    /\ dl_pc' = [j \in Jobs |-> "none"]
    /\ dl_item' = [j \in Jobs |-> NoItem]
    /\ launches' = [j \in Jobs |-> 0]
    /\ drain_calls' = [j \in Jobs |-> 0]
    /\ admits' = [j \in Jobs |-> 0]
    /\ had_pending' = [j \in Jobs |-> FALSE]
    /\ escaped' = [j \in Jobs |-> FALSE]
    /\ UNCHANGED <<ENABLE_AUTO_MOVE, faults, received, raised, fileVars, sideVars>>

\* ------------------------------------------------- save_data, step by step
\* Several processes share the data folder (gunicorn workers and their
\* master, main.py:82-133 and gunicorn.conf.py:53-62). Each runs save_data
\* on its own memory; the paths app_data.json, app_data.tmp and
\* app_data.lock are common. The lock is a flock on the open file
\* description of lock_fd, so it belongs to the inode that was linked at
\* app_data.lock when the file was opened.

\* memory of a process other than Self when it calls save_data: nothing, or
\* one queued job and a search
EmptyData ==
    [download_progress |-> <<>>, download_queue |-> <<>>,
     active_downloads |-> <<>>, search_history |-> <<>>]
StaleData ==
    [download_progress |-> (1 :> JobRecord("queued")),
     download_queue |-> <<Item(1)>>,
     active_downloads |-> <<>>, search_history |-> <<"old">>]
PeerStates == {EmptyData, StaleData}

\* the save_data call process p is in, and what it has done so far
Call(p) == save_log[p][Len(save_log[p])]
SetCall(log, p, field, value) ==
    [log EXCEPT ![p] = [@ EXCEPT ![Len(@)] = [@ EXCEPT ![field] = value]]]

\* main.py:85-98: mkdir, data_to_save, the name of the lock file
SaveBegin(p, d) ==
    /\ save_pc[p] = "idle"
    /\ Len(save_log[p]) < MaxSaves
    /\ d = IF p = Self THEN DataToSave ELSE d
    /\ p # Self => d \in PeerStates
    /\ data_to_save' = [data_to_save EXCEPT ![p] = d]
    /\ save_log' = [save_log EXCEPT ![p] =
                       Append(@, [result |-> "running", before |-> snapshot,
                                  file |-> snapshot])]
    /\ save_pc' = [save_pc EXCEPT ![p] = "open"]
    /\ UNCHANGED <<download_progress, queueVars, req_pc, dlVars, envVars,
                   faults, received, raised, search_history, sideVars, lock_file,
                   lock_fd, flocked, temp_file, temp_open>>

\* inode numbers not linked at app_data.lock and not open in any process
FreeInodes == (1..(MaxProcs + 1)) \ ({lock_file} \cup {lock_fd[q] : q \in Procs})
FreshInode == CHOOSE i \in FreeInodes : \A k \in FreeInodes : i <= k

\* main.py:102: lock_file.open('w') opens the file linked at the path and
\* creates one if there is none
SaveOpenLock(p) ==
    /\ save_pc[p] = "open"
    /\ LET inode == IF lock_file = NoInode THEN FreshInode ELSE lock_file
       IN  /\ lock_file' = inode
           /\ lock_fd' = [lock_fd EXCEPT ![p] = inode]
    /\ save_pc' = [save_pc EXCEPT ![p] = "flock"]
    /\ UNCHANGED <<download_progress, queueVars, req_pc, dlVars, envVars,
                   faults, received, raised, search_history, sideVars, data_to_save,
                   flocked, temp_file, save_log, temp_open>>

\* flock(LOCK_EX | LOCK_NB) fails when another open file description holds
\* a lock on the same inode
LockHeldByOther(p) ==
    \E q \in Procs : q # p /\ flocked[q] /\ lock_fd[q] = lock_fd[p]

\* mutant: a failed flock continues with the cleanup of the lock file
AfterLockFailureCleanup == "unlink"

\* main.py:124-127: the handler of the failed flock returns
AfterLockFailure == "idle"

\* mutant: the exception leaves the file open and the lock held
SaveAbortHolding(p, result) ==
    /\ UNCHANGED <<lock_fd, flocked>>
    /\ save_log' = [save_log EXCEPT ![p] = [@ EXCEPT ![Len(@)] =
                       [@ EXCEPT !.result = result, !.file = snapshot]]]
    /\ save_pc' = [save_pc EXCEPT ![p] = AfterLockFailure]

\* leaving `with lock_file.open('w') as lock_fd` by an OSError: the file is
\* closed, the handler of main.py:124-127 logs and returns
SaveAbort(p, result) ==
    /\ lock_fd' = [lock_fd EXCEPT ![p] = NoInode]
    /\ flocked' = [flocked EXCEPT ![p] = FALSE]
    /\ save_log' = [save_log EXCEPT ![p] = [@ EXCEPT ![Len(@)] =
                       [@ EXCEPT !.result = result, !.file = snapshot]]]
    /\ save_pc' = [save_pc EXCEPT ![p] = AfterLockFailure]

\* main.py:103
SaveFlock(p) ==
    /\ save_pc[p] = "flock"
    /\ IF LockHeldByOther(p)
       THEN SaveAbort(p, "skipped_locked")
       ELSE /\ flocked' = [flocked EXCEPT ![p] = TRUE]
            /\ save_pc' = [save_pc EXCEPT ![p] = "check"]
            /\ UNCHANGED <<lock_fd, save_log>>
    /\ UNCHANGED <<download_progress, queueVars, req_pc, dlVars, envVars,
                   faults, received, raised, search_history, sideVars, data_to_save,
                   lock_file, temp_file, temp_open>>

\* main.py:106
SaveCheck(p) ==
    /\ save_pc[p] = "check"
    /\ IF ShouldSave(data_to_save[p], snapshot)
       THEN save_pc' = [save_pc EXCEPT ![p] = "write"] /\ UNCHANGED save_log
       ELSE /\ save_pc' = [save_pc EXCEPT ![p] = "close"]
            /\ save_log' = SetCall(save_log, p, "result", "skipped_empty")
    /\ UNCHANGED <<download_progress, queueVars, req_pc, dlVars, envVars,
                   faults, received, raised, search_history, sideVars, data_to_save,
                   lock_file, lock_fd, flocked, temp_file, temp_open>>

\* json.dump of data_to_save (main.py:113); its 'download_progress' is the
\* dict of the process itself, not a copy, so Self writes the records as
\* they are at this moment
Dumped(p) ==
    IF p = Self
    THEN [data_to_save[p] EXCEPT !.download_progress = download_progress]
    ELSE data_to_save[p]

\* main.py:110-113: temp_file.open('w'), json.dump, close
SaveWriteTemp(p) ==
    /\ save_pc[p] = "write"
    /\ temp_file' = Dumped(p)
    /\ save_pc' = [save_pc EXCEPT ![p] = "replace"]
    /\ UNCHANGED <<download_progress, queueVars, req_pc, dlVars, envVars,
                   faults, received, raised, search_history, sideVars, data_to_save,
                   lock_file, lock_fd, flocked, save_log, temp_open>>

\* An open file follows its inode: after the rename a file that was open at
\* app_data.tmp is the one linked at app_data.json, and the file that was
\* linked there before has no name any more.
Renamed(place) ==
    CASE place = "temp" -> "snapshot"
      [] place = "snapshot" -> "unlinked"
      [] OTHER -> place

\* mutant: the new data is appended to the queue of the file already there
ReplacedAppend(temp, target) ==
    IF target = NoFile THEN temp
    ELSE [temp EXCEPT !.download_queue = target.download_queue \o @]

\* Path.replace: the target has the contents of the temporary file
Replaced(temp, target) == temp

\* main.py:114: temp_file.replace(APP_DATA_FILE); FileNotFoundError (an
\* OSError) if another process has renamed the temporary file meanwhile
SaveReplace(p) ==
    /\ save_pc[p] = "replace"
    /\ IF temp_file = NoFile
       THEN SaveAbort(p, "failed") /\ UNCHANGED <<snapshot, temp_file, temp_open>>
       ELSE /\ snapshot' = Replaced(temp_file, snapshot)
            /\ temp_file' = NoFile
            /\ temp_open' = [q \in Procs |-> Renamed(temp_open[q])]
            /\ save_log' = SetCall(save_log, p, "result", "saved")
            /\ save_pc' = [save_pc EXCEPT ![p] = "close"]
            /\ UNCHANGED <<lock_fd, flocked>>
    /\ UNCHANGED <<download_progress, queueVars, req_pc, dlVars,
                   ENABLE_AUTO_MOVE, restarts, faults, received, raised,
                   search_history, sideVars, data_to_save, lock_file>>

\* main.py:120-122: the with block ends, closing lock_fd releases the flock
SaveClose(p) ==
    /\ save_pc[p] = "close"
    /\ lock_fd' = [lock_fd EXCEPT ![p] = NoInode]
    /\ flocked' = [flocked EXCEPT ![p] = FALSE]
    /\ save_pc' = [save_pc EXCEPT ![p] = "unlink"]
    /\ UNCHANGED <<download_progress, queueVars, req_pc, dlVars, envVars,
                   faults, received, raised, search_history, sideVars, data_to_save,
                   lock_file, temp_file, save_log, temp_open>>

\* main.py:129-133: lock_file.unlink(missing_ok=True), return
SaveUnlink(p) ==
    /\ save_pc[p] = "unlink"
    /\ lock_file' = NoInode
    /\ save_log' = SetCall(save_log, p, "file", snapshot)
    /\ save_pc' = [save_pc EXCEPT ![p] = "idle"]
    /\ UNCHANGED <<download_progress, queueVars, req_pc, dlVars, envVars,
                   faults, received, raised, search_history, sideVars, data_to_save,
                   lock_fd, flocked, temp_file, temp_open>>

\* ------------------------------------------- the temporary file, step by step
\* temp_file.open('w') and json.dump of main.py:111-112 as two steps. The
\* text of a snapshot is below the buffer size of the file object, so it
\* reaches the file in one write at offset 0 when the with block closes it.
EmptyFile == [text |-> "", size |-> 0]
TornFile(n) == [text |-> "torn", size |-> n]

\* the file holds the whole text of one json.dump of main.py:112
Complete(file) == "download_progress" \in DOMAIN file

\* length of the text of a file: it grows with the number of entries
Size(file) ==
    CASE file = NoFile -> 0
      [] "size" \in DOMAIN file -> file.size
      [] OTHER -> 1 + Cardinality(DOMAIN file.download_progress)
                    + Len(file.download_queue) + Len(file.active_downloads)
                    + Len(file.search_history)

\* a write of `text` at offset 0 of a file that holds `old`: a longer old
\* text keeps its tail
Overwrite(text, old) ==
    IF Size(text) >= Size(old) THEN text ELSE TornFile(Size(old))

\* main.py:111: open('w') creates app_data.tmp or truncates the file that
\* is linked there
SaveOpenTemp(p) ==
    /\ save_pc[p] = "write"
    /\ temp_file' = EmptyFile
    /\ temp_open' = [temp_open EXCEPT ![p] = "temp"]
    /\ save_pc' = [save_pc EXCEPT ![p] = "dump"]
    /\ UNCHANGED <<download_progress, queueVars, req_pc, dlVars, envVars,
                   faults, received, raised, search_history, sideVars, data_to_save,
                   lock_file, lock_fd, flocked, save_log>>

\* main.py:112: json.dump and the close of the file; the text goes to the
\* file that is open, wherever it is linked by now
SaveDumpTemp(p) ==
    /\ save_pc[p] = "dump"
    /\ temp_file' = IF temp_open[p] = "temp"
                    THEN Overwrite(Dumped(p), temp_file) ELSE temp_file
    /\ snapshot' = IF temp_open[p] = "snapshot"
                   THEN Overwrite(Dumped(p), snapshot) ELSE snapshot
    /\ temp_open' = [temp_open EXCEPT ![p] = "closed"]
    /\ save_pc' = [save_pc EXCEPT ![p] = "replace"]
    /\ UNCHANGED <<download_progress, queueVars, req_pc, dlVars,
                   ENABLE_AUTO_MOVE, restarts, faults, received, raised,
                   search_history, sideVars, data_to_save, lock_file, lock_fd, flocked,
                   save_log>>

TornSaveStep(p) ==
    \/ \E d \in PeerStates \cup {DataToSave} : SaveBegin(p, d)
    \/ SaveOpenLock(p)
    \/ SaveFlock(p)
    \/ SaveCheck(p)
    \/ SaveOpenTemp(p)
    \/ SaveDumpTemp(p)
    \/ SaveReplace(p)
    \/ SaveClose(p)
    \/ SaveUnlink(p)

SaveStep(p) ==
    \/ \E d \in PeerStates \cup {DataToSave} : SaveBegin(p, d)
    \/ SaveOpenLock(p)
    \/ SaveFlock(p)
    \/ SaveCheck(p)
    \/ SaveWriteTemp(p)
    \/ SaveReplace(p)
    \/ SaveClose(p)
    \/ SaveUnlink(p)

\* Memory of a process in which no download runs: MaxSavedJobs or fewer
\* records restored from a snapshot or left by finished downloads, the
\* queued ones in download_queue in the order of their ids, the ones that
\* were downloading in active_downloads.
SavedStatuses == {"queued", "downloading", "completed", "error"}
ItemsOf(ids) == [k \in 1..Len(ids) |-> Item(ids[k])]
QuietMemory(n, st) ==
    /\ download_progress = [j \in 1..n |-> JobRecord(st[j])]
    /\ download_queue =
           ItemsOf(SelectSeq([j \in 1..n |-> j], LAMBDA j : st[j] = "queued"))
    /\ active_downloads = {j \in 1..n : st[j] = "downloading"}
    /\ req_pc = [j \in Jobs |-> IF j <= n THEN "gone" ELSE "none"]

\* A process with such a memory, and a data folder that holds no snapshot
\* or one that another process wrote.
SaveInit ==
    /\ \E n \in 0..MaxSavedJobs : \E st \in [1..n -> SavedStatuses] :
           QuietMemory(n, st)
    /\ search_history \in {<<>>, <<"query">>}
    /\ snapshot \in {NoFile, StaleData}
    /\ queue_lock = NoThread
    /\ dl_pc = [j \in Jobs |-> "none"]
    /\ dl_item = [j \in Jobs |-> NoItem]
    /\ launches = [j \in Jobs |-> 0]
    /\ drain_calls = [j \in Jobs |-> 0]
    /\ admits = [j \in Jobs |-> 0]
    /\ had_pending = [j \in Jobs |-> FALSE]
    /\ escaped = [j \in Jobs |-> FALSE]
    /\ ENABLE_AUTO_MOVE = TRUE
    /\ restarts = 0
    /\ faults = 0
    /\ received = [j \in Jobs |-> <<>>]
    /\ raised = [j \in Jobs |-> NoException]
    /\ data_to_save = [p \in Procs |-> NoFile]
    /\ save_pc = [p \in Procs |-> "idle"]
    /\ lock_file = NoInode
    /\ lock_fd = [p \in Procs |-> NoInode]
    /\ flocked = [p \in Procs |-> FALSE]
    /\ temp_file = NoFile
    /\ temp_open = [p \in Procs |-> "closed"]
    /\ save_log = [p \in Procs |-> <<>>]
    /\ SideInit

\* --------------------------------------------------------- specifications
RequestStep(j) ==
    \/ QueueDownloadEnter(j)
    \/ QueueDownloadAdd(j)
    \/ QueueDownloadLaunch(j)
    \/ QueueDownloadPut(j)
    \/ QueueDownloadQueued(j)

StreamStep(j) == \E o \in StreamOutcomes : DownloadStream(j, o)

FinishStep(j) ==
    \/ \E o \in PostOutcomes(ENABLE_AUTO_MOVE) : DownloadPost(j, o)
    \/ ManagedDiscard(j)
    \/ ProcessQueueEnter(j)
    \/ ProcessQueueGet(j)
    \/ ProcessQueueAdd(j)
    \/ ProcessQueueLaunch(j)
    \/ ProcessQueueExit(j)

DownloadStep(j) == StreamStep(j) \/ FinishStep(j)

Create == \E j \in Jobs, initial \in {"starting", "queued"} : CreateJob(j, initial)

\* One process started with empty state; every exception of a download is
\* caught inside download_file_thread.
Next ==
    \/ Create
    \/ \E j \in Jobs : RequestStep(j)
    \/ \E j \in Jobs : DownloadStep(j)

Spec == Init /\ [][Next]_vars

\* Every thread that can take a step eventually takes one; nobody is obliged
\* to submit another job.
Fairness ==
    /\ \A j \in Jobs : WF_vars(RequestStep(j))
    /\ \A j \in Jobs : WF_vars(DownloadStep(j))

FairSpec == Spec /\ Fairness

\* The same process, where an exception may also leave download_file_thread.
NextEscape ==
    \/ Next
    \/ \E j \in Jobs : DownloadEscape(j)

EscapeSpec == Init /\ [][NextEscape]_vars

\* The process may exit while a job waits in the queue and be started
\* again from the snapshot.
NextLoad ==
    \/ Next
    \/ download_queue # <<>> /\ Restart

LoadSpec == Init /\ [][NextLoad]_vars

FairLoadSpec == LoadSpec /\ Fairness

\* The process driven as in the capacity scenario: jobs are submitted one
\* after another while every download is still streaming, then one download
\* ends and nothing else is submitted or ended.
NoneFinished == \A t \in Jobs : dl_pc[t] \in {"none", "stream"}
NoRequestInFlight == InFlight = {}

NextScenario ==
    \/ NoneFinished /\ NoRequestInFlight /\ Create
    \/ \E j \in Jobs : RequestStep(j)
    \/ \E j \in Jobs : NoneFinished /\ NoRequestInFlight /\ StreamStep(j)
    \/ \E j \in Jobs : FinishStep(j)

ScenarioSpec == Init /\ [][NextScenario]_vars

\* managed_download_thread after download_file_thread has returned
CompletionStep(j) ==
    \/ ManagedDiscard(j)
    \/ ProcessQueueEnter(j)
    \/ ProcessQueueGet(j)
    \/ ProcessQueueAdd(j)
    \/ ProcessQueueLaunch(j)
    \/ ProcessQueueExit(j)

\* download_file_thread of job j on a response with the given headers and
\* chunk sizes, with exceptions of the given texts
ThreadStep(j, headers, chunks, texts) ==
    \/ \E h \in headers : DownloadRequest(j, h)
    \/ \E c \in chunks : DownloadChunk(j, c)
    \/ \E k \in ExceptionKinds, t \in texts : DownloadRaise(j, k, t)
    \/ DownloadBodyEnd(j)
    \/ \E e \in BOOLEAN : DownloadExistsCheck(j, e)
    \/ \E m \in BOOLEAN, t \in texts : DownloadMove(j, m, t)

\* One job is submitted to an idle process and downloaded, for every
\* content-length up to MaxLength (or none) and every sequence of up to
\* MaxChunks chunks of up to MaxChunk bytes.
OneJob == 1

OneJobStep ==
    \/ ThreadStep(OneJob, Headers, 0..MaxChunk, ExceptionTexts)
    \/ ManagedDiscard(OneJob)
    \/ ProcessQueueEnter(OneJob)
    \/ ProcessQueueExit(OneJob)

NextThread ==
    \/ \E initial \in {"starting", "queued"} : CreateJobRecord(OneJob, initial)
    \/ QueueDownloadEnter(OneJob)
    \/ QueueDownloadAdd(OneJob)
    \/ QueueDownloadLaunch(OneJob)
    \/ OneJobStep

ThreadSpec == Init /\ [][NextThread]_vars

\* the download thread keeps running until it ends
FairThreadSpec == ThreadSpec /\ WF_vars(OneJobStep)

\* The whole process with downloads followed chunk by chunk: up to
\* MaxDetailJobs jobs are submitted one request at a time, admitted or
\* queued, downloaded and drained, one download thread running between its
\* request and its exit at a time. Every
\* response declares a content-length of MaxChunk bytes; the first
\* MaxObserved chunks of a run are followed (each of MaxChunk bytes), the
\* bodies after them end without a further chunk being looked at.
ObservedChunks == IF ChunksReceived < MaxObserved THEN {MaxChunk} ELSE {}

\* no other download thread is between its request and its exit
OneAtATime(j) == \A i \in Jobs \ {j} : dl_pc[i] \in {"none", "stream", "done"}

NextDetail ==
    \/ /\ NoRequestInFlight
       /\ \E j \in 1..MaxDetailJobs, initial \in {"starting", "queued"} :
              CreateJobRecord(j, initial)
    \/ \E j \in Jobs : RequestStep(j)
    \/ \E j \in Jobs :
           OneAtATime(j) /\ ThreadStep(j, {<<MaxChunk>>}, ObservedChunks, {"timed out"})
    \/ \E j \in Jobs : OneAtATime(j) /\ CompletionStep(j)

DetailSpec == Init /\ [][NextDetail]_vars

\* One process calls save_data up to MaxSaves times, one call after the
\* other (the worker-exit hook, then atexit), and nothing else happens.
NextSave == SaveStep(Self)

SaveSpec == SaveInit /\ [][NextSave]_vars

\* All processes sharing the folder call save_data, in any interleaving.
NextSharedSave == \E p \in Procs : SaveStep(p)

\* the processes that share the folder: Self has at most one record in
\* memory and no search
SharedSaveInit ==
    /\ SaveInit
    /\ Cardinality(DOMAIN download_progress) <= 1
    /\ search_history = <<>>

SharedSaveSpec == SharedSaveInit /\ [][NextSharedSave]_vars

\* ------------------------------------------------- load_data on any file
\* The snapshot a memory of n quiet jobs with statuses st and search
\* history h is saved as.
SnapshotOf(n, st, h) ==
    [download_progress |-> [j \in 1..n |-> JobRecord(st[j])],
     download_queue |->
         ItemsOf(SelectSeq([j \in 1..n |-> j], LAMBDA j : st[j] = "queued")),
     active_downloads |-> SetToList({j \in 1..n : st[j] = "downloading"}),
     search_history |-> h]

ValidFiles ==
    {SnapshotOf(n, st, h) : <<n, st, h>> \in
        UNION {{n} \X [1..n -> SavedStatuses] \X {<<>>, <<"query">>} :
                   n \in 0..MaxSavedJobs}}

\* keys of the snapshot in the order load_data merges them (main.py:145-149)
Fields == <<"download_progress", "download_queue", "active_downloads",
            "search_history">>

\* A file that json.load parses but that is not a snapshot: under the keys
\* in `bad` it holds a value the merge of that key raises on (a number:
\* dict.update, the for loop, set.update and list.extend all raise
\* TypeError before they change anything); "document" in `bad` means the
\* document itself is no object, so data_loaded.get raises.
InvalidFile(data, bad) == [json |-> data, bad |-> bad]

InvalidFiles ==
    {InvalidFile(d, B) : <<d, B>> \in
        ValidFiles \X (SUBSET ({"document"} \cup {Fields[k] : k \in 1..4}) \ {{}})}

\* what app_data.json can hold when a process starts
AnyFiles == {NoFile, EmptyFile} \cup {TornFile(n) : n \in 1..MaxSavedJobs}
                \cup ValidFiles \cup InvalidFiles

\* number of merges of main.py:145-149 that are done before one raises
Merges(file) ==
    CASE Complete(file) -> 4
      [] "bad" \in DOMAIN file ->
             IF "document" \in file.bad THEN 0
             ELSE (CHOOSE k \in 1..4 :
                      Fields[k] \in file.bad /\
                      \A i \in 1..(k - 1) : Fields[i] \notin file.bad) - 1
      [] OTHER -> 0

\* the part of the file that load_data has merged when it returns
Merged(file) ==
    LET doc == IF Complete(file) THEN file
               ELSE IF "bad" \in DOMAIN file THEN file.json ELSE EmptyData
    IN  [f \in {Fields[k] : k \in 1..4} |->
            IF \E k \in 1..Merges(file) : Fields[k] = f
            THEN doc[f] ELSE EmptyData[f]]

\* main.py:140-152: "fresh" without a file, "loaded" after the four merges,
\* "failed" when the handler of main.py:151 caught an exception
LoadResult(file) ==
    IF file = NoFile THEN "fresh"
    ELSE IF Merges(file) = 4 THEN "loaded" ELSE "failed"

\* load_data: main.py:135-152, in the empty memory of a starting process
LoadData ==
    /\ load_result = "none"
    /\ download_progress' = LoadedProgress(Merged(snapshot))
    /\ download_queue' = LoadedQueue(Merged(snapshot))
    /\ active_downloads' = LoadedActive(Merged(snapshot))
    /\ search_history' = search_history \o LoadedHistory(Merged(snapshot))
    /\ load_result' = LoadResult(snapshot)
    /\ UNCHANGED <<queue_lock, req_pc, dlVars, envVars, faults, received,
                   raised, fileVars, exceptLoad>>

\* a process that has just imported the module (main.py:68-76), and any
\* file at app_data.json
StartInit ==
    /\ snapshot \in AnyFiles
    /\ download_progress = <<>>
    /\ download_queue = <<>>
    /\ active_downloads = {}
    /\ search_history = <<>>
    /\ queue_lock = NoThread
    /\ req_pc = [j \in Jobs |-> "none"]
    /\ dl_pc = [j \in Jobs |-> "none"]
    /\ dl_item = [j \in Jobs |-> NoItem]
    /\ launches = [j \in Jobs |-> 0]
    /\ drain_calls = [j \in Jobs |-> 0]
    /\ admits = [j \in Jobs |-> 0]
    /\ had_pending = [j \in Jobs |-> FALSE]
    /\ escaped = [j \in Jobs |-> FALSE]
    /\ ENABLE_AUTO_MOVE = TRUE
    /\ restarts = 0
    /\ faults = 0
    /\ received = [j \in Jobs |-> <<>>]
    /\ raised = [j \in Jobs |-> NoException]
    /\ data_to_save = [p \in Procs |-> NoFile]
    /\ save_pc = [p \in Procs |-> "idle"]
    /\ lock_file = NoInode
    /\ lock_fd = [p \in Procs |-> NoInode]
    /\ flocked = [p \in Procs |-> FALSE]
    /\ temp_file = NoFile
    /\ temp_open = [p \in Procs |-> "closed"]
    /\ save_log = [p \in Procs |-> <<>>]
    /\ SideInit

NextStart == LoadData

StartSpec == StartInit /\ [][NextStart]_vars

\* the same processes, with the write of the temporary file in two steps
NextTornSave == \E p \in Procs : TornSaveStep(p)

TornSaveSpec == SharedSaveInit /\ [][NextTornSave]_vars

\* --------------------------------------------------------- search history
QueryNames == <<"q1", "q2", "q3", "q4", "q5", "q6", "q7", "q8">>
Queries == {QueryNames[k] : k \in 1..MaxQueries}

\* list.remove(x): the list without the first occurrence of x
Remove(list, x) ==
    LET k == CHOOSE i \in 1..Len(list) :
                 list[i] = x /\ \A m \in 1..(i - 1) : list[m] # x
    IN  SubSeq(list, 1, k - 1) \o SubSeq(list, k + 1, Len(list))

\* list[:n]
Slice(list, n) == SubSeq(list, 1, IF Len(list) < n THEN Len(list) ELSE n)

\* mutant: the query is inserted without removing its earlier occurrence
AddedToHistoryNoRemove(history, query) ==
    Slice(<<query>> \o history, HISTORY_LENGTH)

\* main.py:169-176
AddedToHistory(history, query) ==
    LET removed == IF \E i \in 1..Len(history) : history[i] = query
                   THEN Remove(history, query) ELSE history
    IN  Slice(<<query>> \o removed, HISTORY_LENGTH)

\* add_to_search_history(query): main.py:164-178
AddToSearchHistory(query) ==
    /\ Len(searched) < MaxSearches
    /\ search_history' = AddedToHistory(search_history, query)
    /\ searched' = Append(searched, query)
    /\ UNCHANGED <<download_progress, queueVars, req_pc, dlVars, envVars,
                   faults, received, raised, fileVars, exceptHistory>>

\* Query strings carry no data, so they are named in the order of their
\* first search: a query is one searched before or the next new name.
InOrder(query) ==
    \A k \in 1..MaxQueries :
        QueryNames[k] = query =>
            \A m \in 1..(k - 1) :
                \E i \in 1..Len(searched) : searched[i] = QueryNames[m]

\* a process that found no snapshot, and the searches of its users one
\* after the other
NextHistory ==
    \E query \in Queries : InOrder(query) /\ AddToSearchHistory(query)

HistorySpec == Init /\ [][NextHistory]_vars

\* ----------------------------------------------------------- season batch
\* The form field episodes_data: missing or empty, a text json.loads
\* cannot parse, a JSON value that is no list, or a list. An entry of the
\* list is an "episode" ({link, title}), an object without a link
\* ("no_link"), or no object at all ("number").
ElementKinds == {"episode", "no_link", "number"}
Lists ==
    UNION {[1..n -> ElementKinds] : n \in 0..MaxEpisodes}
Payloads ==
    {[form |-> f, items |-> <<>>] : f \in {"missing", "text", "value"}}
        \cup {[form |-> "list", items |-> l] : l \in Lists}

\* the tests of main.py:643-653 (and main.py:533-537): the message of the
\* rejection, "" if the payload passes
Rejection(payload) ==
    CASE payload.form = "missing" -> "Error: No episodes data provided."
      [] payload.form = "text" -> "Error: Invalid episode data format."
      [] payload.form = "value" \/ payload.items = <<>> ->
             "Error: Invalid episodes data."
      [] OTHER -> ""

\* download_all_season: main.py:637-674
DownloadAllSeason(payload) ==
    /\ flashed = NoFlash
    /\ episodes_data' = payload
    /\ IF Rejection(payload) # ""
       THEN /\ flashed' = [category |-> "error", message |-> Rejection(payload)]
            /\ UNCHANGED batch_pc
       ELSE /\ flashed' = [category |-> "info", message |-> "Started processing"]
            /\ batch_pc' = "start"
    /\ UNCHANGED <<download_progress, queueVars, req_pc, dlVars, envVars,
                   faults, received, raised, search_history, fileVars,
                   exceptBatch, season_processing, resolved>>

\* how the loop of main.py:555-616 left an entry: skipped for its missing
\* link, or the outcome of its sourceUrl request, and the job it created
Entry(outcome, jobs) == [outcome |-> outcome, jobs |-> jobs]

\* the one processing_id of the run
ProcessingId == 1
Batch == season_processing[ProcessingId]

\* main.py:529-553
BatchStart ==
    /\ batch_pc = "start"
    /\ IF Rejection(episodes_data) # ""
       THEN batch_pc' = "done" /\ UNCHANGED season_processing
       ELSE /\ season_processing' =
                   (ProcessingId :>
                       [total_episodes |-> Len(episodes_data.items),
                        processed_episodes |-> 0,
                        successful_downloads |-> 0,
                        status |-> "processing", error |-> None])
            /\ batch_pc' = "loop"
    /\ UNCHANGED <<download_progress, queueVars, req_pc, dlVars, envVars,
                   faults, received, raised, search_history, fileVars,
                   exceptBatch, episodes_data, flashed, resolved>>

\* main.py:555-564 for the next entry, or main.py:619-620 after the last
\* one; episode.get of an entry that is no object raises AttributeError,
\* which the handler of main.py:629-633 records
BatchNext ==
    /\ batch_pc = "loop"
    /\ LET i == Batch.processed_episodes
       IN  IF i = Batch.total_episodes
           THEN /\ season_processing' =
                       [season_processing EXCEPT ![ProcessingId].status = "completed"]
                /\ batch_pc' = "done"
                /\ UNCHANGED resolved
           ELSE IF episodes_data.items[i + 1] = "number"
           THEN /\ season_processing' =
                       [season_processing EXCEPT ![ProcessingId] =
                           Update(@, [status |-> "error",
                                      error |-> "no attribute 'get'"])]
                /\ batch_pc' = "done"
                /\ UNCHANGED resolved
           ELSE /\ season_processing' =
                       [season_processing EXCEPT
                           ![ProcessingId].processed_episodes = i + 1]
                /\ batch_pc' = IF episodes_data.items[i + 1] = "no_link"
                               THEN "loop" ELSE "fetch"
                /\ resolved' = IF episodes_data.items[i + 1] = "no_link"
                               THEN Append(resolved, Entry("no_link", {}))
                               ELSE resolved
    /\ UNCHANGED <<download_progress, queueVars, req_pc, dlVars, envVars,
                   faults, received, raised, search_history, fileVars,
                   exceptBatch, episodes_data, flashed>>

\* what the sourceUrl request of main.py:568-574 can end with
FetchOutcomes == {"ok", "no_url", "exception"}

\* main.py:566-602 and 614-616: the sourceUrl request; with a URL the
\* record of download j is created, otherwise the entry is skipped
BatchFetch(j, outcome) ==
    /\ batch_pc = "fetch"
    /\ req_pc[j] = "none"
    /\ \A i \in Jobs : i < j => req_pc[i] # "none"
    /\ IF outcome = "ok"
       THEN /\ download_progress' =
                   (j :> Update(JobRecord("queued"),
                                [is_season_download |-> TRUE,
                                 season_processing_id |-> ProcessingId]))
                       @@ download_progress
            /\ req_pc' = [req_pc EXCEPT ![j] = "created"]
            /\ batch_pc' = "submit"
            /\ resolved' = Append(resolved, Entry(outcome, {j}))
       ELSE /\ batch_pc' = "loop"
            /\ resolved' = Append(resolved, Entry(outcome, {}))
            /\ UNCHANGED <<download_progress, req_pc>>
    /\ UNCHANGED <<queueVars, dlVars, envVars, faults, received, raised,
                   search_history, fileVars, exceptBatch,
                   episodes_data, flashed, season_processing>>

\* mutant: the job is counted before and after its submission
BatchCountTwice(j) ==
    /\ batch_pc = "submit"
    /\ req_pc[j] = "done"
    /\ \A i \in Jobs : i > j => req_pc[i] = "none"
    /\ season_processing' =
           [season_processing EXCEPT
               ![ProcessingId].successful_downloads = @ + 2]
    /\ batch_pc' = "loop"
    /\ UNCHANGED <<download_progress, queueVars, req_pc, dlVars, envVars,
                   faults, received, raised, search_history, fileVars,
                   exceptBatch, episodes_data, flashed, resolved>>

\* main.py:605-612: queue_download(j) has returned
BatchCount(j) ==
    /\ batch_pc = "submit"
    /\ req_pc[j] = "done"
    /\ \A i \in Jobs : i > j => req_pc[i] = "none"
    /\ season_processing' =
           [season_processing EXCEPT
               ![ProcessingId].successful_downloads = @ + 1]
    /\ batch_pc' = "loop"
    /\ UNCHANGED <<download_progress, queueVars, req_pc, dlVars, envVars,
                   faults, received, raised, search_history, fileVars,
                   exceptBatch, episodes_data, flashed, resolved>>

BatchStep ==
    \/ BatchStart
    \/ BatchNext
    \/ \E j \in Jobs, outcome \in FetchOutcomes : BatchFetch(j, outcome)
    \/ \E j \in Jobs : BatchCount(j)

\* One season request to an idle process, with any payload; the downloads
\* that are launched do not go on while the batch is worked off.
NextBatch ==
    \/ \E payload \in Payloads : DownloadAllSeason(payload)
    \/ BatchStep
    \/ \E j \in Jobs : RequestStep(j)

BatchSpec == Init /\ [][NextBatch]_vars

\* -------------------------------------------------------- list_downloads
\* f"{progress:.2f}" of main.py:725 as a number of hundredths, rounded to
\* the nearest one (no progress value of the model lies halfway)
Hundredths(progress) ==
    (200 * progress[1] + progress[2]) \div (2 * progress[2])

\* the fields of a record that list_downloads reports, in the order in
\* which main.py:725 reads them ('filename' never changes; 'size' and
\* 'speed' change together with 'progress' and are left out of the row)
Row(rec) == <<rec.status, Hundredths(rec.progress), rec.error>>

Listed == Len(listing.row) = Len(Row(JobRecord("queued")))

\* main.py:724: progress = download_progress[download_id], a reference to
\* the dict the download thread writes to
ListBegin(j) ==
    /\ j \in DOMAIN download_progress
    /\ listing.before = NoRecord \/ Listed
    /\ listing' = [before |-> download_progress[j], row |-> <<>>,
                   after |-> download_progress[j]]
    /\ UNCHANGED <<download_progress, queueVars, req_pc, dlVars, envVars,
                   faults, received, raised, search_history, fileVars,
                   exceptList>>

\* main.py:725: the next progress.get(...) of the dict literal
ListRead(j) ==
    /\ listing.before # NoRecord /\ ~Listed
    /\ listing' =
           [listing EXCEPT
               !.row = Append(@, Row(download_progress[j])[Len(@) + 1]),
               !.after = download_progress[j]]
    /\ UNCHANGED <<download_progress, queueVars, req_pc, dlVars, envVars,
                   faults, received, raised, search_history, fileVars,
                   exceptList>>

\* the record is still as it was when the listing now under way began
Undisturbed ==
    IF listing.before = NoRecord \/ Listed THEN TRUE
    ELSE download_progress[OneJob] = listing.before

\* One job is downloaded while the downloads page polls /downloads; of the
\* interleavings, those in which at most one update of the record falls
\* into one listing.
NextList ==
    \/ ListBegin(OneJob)
    \/ ListRead(OneJob)
    \/ Undisturbed /\ NextThread

ListSpec == Init /\ [][NextList]_vars

\* ================================================================ web routes
\* The routes behind require_auth (main.py:41-48): the index page and the two
\* file routes.  A filename is kept as its '/'-separated segments and whether
\* it starts with '/'; the segment "a..b" is an ordinary name that holds two
\* dots.

SegmentNames == {"..", "f", "a..b"}
Filenames ==
    [absolute : BOOLEAN,
     segments : UNION {[1..n -> SegmentNames] : n \in 0..MaxSegments}]
Locations == {"downloads", "completed", "elsewhere"}
Routes == {"index", "download_file", "delete_file"}

\* main.py:769 `not filename`: the empty string
Empty(filename) == ~filename.absolute /\ filename.segments = <<>>

\* main.py:773 `'..' in filename`: a substring test, true of every segment of
\* SegmentNames that holds two dots in a row
ContainsDots(filename) ==
    \E k \in 1..Len(filename.segments) : filename.segments[k] \in {"..", "a..b"}

\* main.py:773 `filename.startswith('/')`
StartsWithSlash(filename) == filename.absolute

\* posixpath.normpath as send_from_directory applies it to the filename
\* (main.py:756): a ".." cancels the name before it, is dropped at the root and
\* is kept where nothing precedes it
RECURSIVE Normalized(_, _, _)
Normalized(absolute, segments, done) ==
    IF segments = <<>> THEN done
    ELSE LET s == Head(segments)
             top == IF done = <<>> THEN "" ELSE done[Len(done)]
         IN IF s # ".." THEN Normalized(absolute, Tail(segments), Append(done, s))
            ELSE IF done # <<>> /\ top # ".."
                 THEN Normalized(absolute, Tail(segments), SubSeq(done, 1, Len(done) - 1))
            ELSE IF absolute THEN Normalized(absolute, Tail(segments), done)
            ELSE Normalized(absolute, Tail(segments), Append(done, s))

\* the join of send_from_directory (main.py:756, 758): refused when the
\* normalised name is absolute or climbs out with a leading ".."
SafeJoin(filename) ==
    LET path == Normalized(filename.absolute, filename.segments, <<>>)
    IN IF filename.absolute \/ (path # <<>> /\ path[1] = "..")
       THEN [joined |-> FALSE, path |-> <<>>]
       ELSE [joined |-> TRUE, path |-> path]

FsCall(name, location, path) == [call |-> name, location |-> location, path |-> path]

\* download_file (main.py:752-760); `exists` is whether the joined path names
\* a regular file
DownloadFile(location, filename, exists) ==
    IF location \notin {"downloads", "completed"}
    THEN [response |-> [status |-> 404, to |-> ""], calls |-> <<>>]
    ELSE LET join == SafeJoin(filename)
         IN IF ~join.joined
            THEN [response |-> [status |-> 404, to |-> ""], calls |-> <<>>]
            ELSE IF ~exists
            THEN [response |-> [status |-> 404, to |-> ""],
                  calls |-> <<FsCall("isfile", location, join.path)>>]
            ELSE [response |-> [status |-> 200, to |-> ""],
                  calls |-> <<FsCall("isfile", location, join.path),
                              FsCall("open", location, join.path)>>]

\* delete_file (main.py:762-792)
DeleteFile(location, filename, exists) ==
    IF Empty(filename) \/ ContainsDots(filename) \/ StartsWithSlash(filename)
    THEN [response |-> [status |-> 400, to |-> ""], calls |-> <<>>]
    ELSE IF location \notin {"downloads", "completed"}
    THEN [response |-> [status |-> 302, to |-> "list_files"], calls |-> <<>>]
    ELSE IF ~exists
    THEN [response |-> [status |-> 302, to |-> "list_files"],
          calls |-> <<FsCall("exists", location, filename.segments)>>]
    ELSE [response |-> [status |-> 302, to |-> "list_files"],
          calls |-> <<FsCall("exists", location, filename.segments),
                      FsCall("remove", location, filename.segments)>>]

\* index (main.py:357-361) renders the page
Index == [response |-> [status |-> 200, to |-> ""], calls |-> <<>>]

View(route, location, filename, exists) ==
    IF route = "index" THEN Index
    ELSE IF route = "download_file" THEN DownloadFile(location, filename, exists)
    ELSE DeleteFile(location, filename, exists)

\* require_auth (main.py:41-48) around a view: the session alone decides
RequireAuth(cookie, view) ==
    IF "authenticated" \notin cookie
    THEN [response |-> [status |-> 302, to |-> "login"], calls |-> <<>>]
    ELSE view

\* one request to a protected route, served from start to end
Serve(route, location, filename, exists) ==
    /\ route = "index" => location = "" /\ filename = NoName
    /\ route = "download_file" => ~Empty(filename)
    /\ LET out == RequireAuth(session, View(route, location, filename, exists))
       IN /\ request' = [route |-> route, location |-> location,
                         filename |-> filename, cookie |-> session]
          /\ response' = out.response
          /\ fs_calls' = out.calls
    /\ UNCHANGED <<download_progress, queueVars, req_pc, dlVars, envVars, faults, received, raised,
                   search_history, fileVars, exceptWeb, app_config, session>>

\* login with the right credentials (main.py:332-345)
Login ==
    /\ "authenticated" \notin session
    /\ session' = session \cup {"authenticated"}
    /\ request' = [route |-> "login", location |-> "", filename |-> NoName,
                   cookie |-> session]
    /\ response' = [status |-> 302, to |-> "index"]
    /\ fs_calls' = <<>>
    /\ UNCHANGED <<download_progress, queueVars, req_pc, dlVars, envVars, faults, received, raised,
                   search_history, fileVars, exceptWeb, app_config>>

\* app.config['LOGIN_REQUIRED'] = value (tests/test_auth_config.py:21)
Configure(value) ==
    /\ app_config = <<>>
    /\ app_config' = [LOGIN_REQUIRED |-> value]
    /\ UNCHANGED <<download_progress, queueVars, req_pc, dlVars, envVars, faults, received, raised,
                   search_history, fileVars, exceptWeb, session, request,
                   response, fs_calls>>

\* a client that may log in and then sends one request
NextWeb ==
    \/ \E value \in BOOLEAN : Configure(value)
    \/ Login
    \/ /\ request.route \in {"", "login"}
       /\ \E route \in Routes, location \in Locations \cup {""},
              filename \in Filenames, exists \in BOOLEAN :
              Serve(route, location, filename, exists)

WebSpec == Init /\ [][NextWeb]_vars

\* ================================================================ exit
\* save_data at the exit of the process, no longer in one step.  The dict
\* literal of main.py:90-95 copies the queue (main.py:92) and then the active
\* set (main.py:93) while the daemon download threads are still running; the
\* records are serialised from the live dict.  The process then ends and the
\* next one loads the file (main.py:964).

\* main.py:90-92: list(download_queue.queue)
ExitRead ==
    /\ restarts < MaxRestarts
    /\ exit_read = NoRead
    /\ exit_read' = [read |-> TRUE, download_queue |-> download_queue]
    /\ UNCHANGED <<download_progress, queueVars, req_pc, dlVars, envVars,
                   faults, received, raised, search_history, fileVars,
                   exceptExit, launched_before>>

\* what main.py:93-95 add to the copy of the queue
ExitData ==
    [download_progress |-> download_progress,
     download_queue |-> exit_read.download_queue,
     active_downloads |-> SetToList(active_downloads),
     search_history |-> search_history]

\* main.py:93-127, the end of the process with all its threads, and
\* load_data in the process that follows
ExitSave ==
    /\ exit_read # NoRead
    /\ restarts' = restarts + 1
    /\ exit_read' = NoRead
    /\ snapshot' = SavedFile(snapshot, ExitData)
    /\ download_progress' = LoadedProgress(snapshot')
    /\ download_queue' = LoadedQueue(snapshot')
    /\ active_downloads' = LoadedActive(snapshot')
    /\ search_history' = LoadedHistory(snapshot')
    /\ queue_lock' = NoThread
    /\ req_pc' = [j \in Jobs |-> IF req_pc[j] = "none" THEN "none" ELSE "gone"]
    /\ dl_pc' = [j \in Jobs |-> "none"]
    /\ dl_item' = [j \in Jobs |-> NoItem]
    /\ launched_before' = [j \in Jobs |-> launched_before[j] + launches[j]]
    /\ launches' = [j \in Jobs |-> 0]
    /\ drain_calls' = [j \in Jobs |-> 0]
    /\ admits' = [j \in Jobs |-> 0]
    /\ had_pending' = [j \in Jobs |-> FALSE]
    /\ escaped' = [j \in Jobs |-> FALSE]
    /\ received' = [j \in Jobs |-> <<>>]
    /\ raised' = [j \in Jobs |-> NoException]
    /\ UNCHANGED <<ENABLE_AUTO_MOVE, faults, fileVars, exceptExit>>

\* while save_data runs, the download that is ending goes on and so does
\* the job it admits; the other downloads wait for their responses
DuringExit(j) ==
    IF exit_read = NoRead THEN TRUE
    ELSE \/ dl_pc[j] # "stream"
         \/ \E k \in 1..Len(exit_read.download_queue) :
                exit_read.download_queue[k][1] = j

\* the process exits while a job waits in the queue; while save_data runs
\* only download threads go on
NextExit ==
    \/ exit_read = NoRead /\ Next
    \/ exit_read # NoRead /\ \E j \in Jobs : DuringExit(j) /\ DownloadStep(j)
    \/ download_queue # <<>> /\ ExitRead
    \/ ExitSave

ExitSpec == Init /\ [][NextExit]_vars

\* The same exit with the downloads followed statement by statement, as in
\* DetailSpec, on the full records.  Jobs are submitted one after the other
\* before the first download of the process has got its response, up to
\* MaxDetailJobs of them and one more after the restart; from then on the
\* downloads run, end and drain one at a time (a download gets its response
\* when the one before it has left process_download_queue), and the process
\* may exit while a job is waiting in the queue.
DetailThreadStep(j) ==
    \/ ThreadStep(j, {<<MaxChunk>>}, ObservedChunks, {"timed out"})
    \/ CompletionStep(j)

NextExitDetail ==
    \/ /\ exit_read = NoRead /\ NoneFinished /\ NoRequestInFlight
       /\ \E j \in Jobs \cap 1..(MaxDetailJobs + restarts) :
              CreateJobRecord(j, "starting")
    \/ exit_read = NoRead /\ \E j \in Jobs : RequestStep(j)
    \/ NoRequestInFlight /\ \E j \in Jobs :
           OneAtATime(j) /\ DuringExit(j) /\ DetailThreadStep(j)
    \/ NoRequestInFlight /\ download_queue # <<>> /\ ExitRead
    \/ ExitSave

ExitDetailSpec == Init /\ [][NextExitDetail]_vars

\* ============================================================ queue_status
\* The queue_status dict of list_downloads (main.py:744-749) is a dict
\* literal: its values are evaluated one after the other, without
\* queue_lock, while request and download threads run.  queue_status.read
\* lists the values read so far: len(active_downloads), qsize(), and
\* len(active_downloads) once more for available_slots.
StatusRead(value) ==
    /\ Len(queue_status.read) < 3
    /\ queue_status' = [read |-> Append(queue_status.read, value)]
    /\ UNCHANGED <<download_progress, queueVars, req_pc, dlVars, envVars,
                   faults, received, raised, search_history, fileVars,
                   exceptStatus>>

\* main.py:745, 747, 748 in turn
StatusStep ==
    StatusRead(IF Len(queue_status.read) = 1
               THEN Len(download_queue)
               ELSE Cardinality(active_downloads))

\* the response of main.py:743-750, once all values are read
QueueStatus ==
    [active_downloads |-> queue_status.read[1],
     max_concurrent |-> MAX_CONCURRENT_DOWNLOADS,
     queued_downloads |-> queue_status.read[2],
     available_slots |-> MAX_CONCURRENT_DOWNLOADS - queue_status.read[3]]

Responded == Len(queue_status.read) = 3

\* one status request while the process runs as in the capacity scenario:
\* jobs are submitted, then downloads end and drain
NextStatus ==
    \/ NextScenario
    \/ StatusStep

StatusSpec == Init /\ [][NextStatus]_vars

\* ================================================================ Endpoint
\* Endpoint.py.  An Endpoint is constructed with files or without, with a
\* Content-Type header of application/json, another one or none, and with a
\* post_function: the default None, a function, a callable object whose
\* truth value is false, or a value that is not callable (a non-empty or an
\* empty string, a non-zero number or 0, a non-empty or an empty list).
PostFunctions ==
    {"None", "function", "falsy callable", "'hook'", "''", "1", "0",
     "['hook']", "[]"}
\* callable(v)
Callable(v) == v \in {"function", "falsy callable"}
\* bool(v), the test of `if self.post_function:`
Truthy(v) == v \in {"function", "'hook'", "1", "['hook']"}

Endpoints ==
    [constructed : {TRUE}, files : BOOLEAN,
     content_type : {"application/json", "text/plain", "absent"},
     post_function : PostFunctions]

\* Endpoint.__init__ (Endpoint.py:6-19)
Construct(e) ==
    /\ endpoint = NoEndpoint
    /\ endpoint' = e
    /\ UNCHANGED <<download_progress, queueVars, req_pc, dlVars, envVars,
                   faults, received, raised, search_history, fileVars,
                   exceptEndpoint, fetched>>

\* Endpoint.py:67-73: how the payload is handed to requests.request
RequestBody(e) ==
    IF e.files THEN "files and data"
    ELSE IF e.content_type = "application/json" THEN "json" ELSE "data"

\* what requests.request ends with: a response whose body is JSON or not,
\* with a status code, or an exception
Responses ==
    [json : BOOLEAN, status_code : {200, 404, 500}]

\* Endpoint.py:77-80
ResponseObj(resp) == IF resp.json THEN "response.json()" ELSE "response.text"

\* Endpoint.py:82-86: what becomes of post_function
PostFunctionStep(v) ==
    IF ~Truthy(v) THEN "skipped"
    ELSE IF Callable(v) THEN "called"
    ELSE "ValueError"

\* Endpoint.fetch (Endpoint.py:60-88) on a response
Fetched(e, resp) ==
    LET step == PostFunctionStep(e.post_function)
    IN  [ended |-> IF step = "ValueError" THEN "raised" ELSE "returned",
         exception |-> IF step = "ValueError"
                       THEN "ValueError: post_function must be callable" ELSE "",
         sent |-> RequestBody(e),
         post_function |-> step,
         response_obj |-> IF step = "ValueError" THEN "" ELSE ResponseObj(resp),
         status_code |-> IF step = "ValueError" THEN 0 ELSE resp.status_code]

Fetch(resp) ==
    /\ endpoint # NoEndpoint
    /\ fetched' = Fetched(endpoint, resp)
    /\ UNCHANGED <<download_progress, queueVars, req_pc, dlVars, envVars,
                   faults, received, raised, search_history, fileVars,
                   exceptEndpoint, endpoint>>

\* Endpoint.py:75: requests.request raises, and so does fetch
FetchFails ==
    /\ endpoint # NoEndpoint
    /\ fetched' = [ended |-> "raised", exception |-> "RequestException",
                   sent |-> RequestBody(endpoint), post_function |-> "not reached",
                   response_obj |-> "", status_code |-> 0]
    /\ UNCHANGED <<download_progress, queueVars, req_pc, dlVars, envVars,
                   faults, received, raised, search_history, fileVars,
                   exceptEndpoint, endpoint>>

NextEndpoint ==
    \/ \E e \in Endpoints : Construct(e)
    \/ \E resp \in Responses : Fetch(resp)
    \/ FetchFails

EndpointSpec == Init /\ [][NextEndpoint]_vars

\* ------------------------------------------- search history, two requests
\* Flask's development server (main.py:975) answers every request in a
\* thread of its own, so two /search requests run add_to_search_history
\* at once.  The list operations are single calls that hold the
\* interpreter lock; a thread switch can fall between the statements and
\* between the slice and the assignment of main.py:176.
CallStep(t, call) ==
    /\ history_calls' = [history_calls EXCEPT ![t] = call]
    /\ UNCHANGED <<download_progress, queueVars, req_pc, dlVars, envVars,
                   faults, received, raised, fileVars, exceptCalls>>

InList(list, x) == \E i \in 1..Len(list) : list[i] = x

\* search_results calls add_to_search_history(query): main.py:380
HistoryCall(t, query) ==
    /\ history_calls[t] = NoCall
    /\ Len(searched) < MaxSearches
    /\ searched' = Append(searched, query)
    /\ CallStep(t, [pc |-> "check", query |-> query])
    /\ UNCHANGED search_history

\* main.py:169
HistoryCheck(t) ==
    /\ history_calls[t].pc = "check"
    /\ CallStep(t, [history_calls[t] EXCEPT
                       !.pc = IF InList(search_history, history_calls[t].query)
                              THEN "remove" ELSE "insert"])
    /\ UNCHANGED <<search_history, searched>>

\* main.py:170: list.remove raises ValueError when the query is gone
HistoryRemove(t) ==
    /\ history_calls[t].pc = "remove"
    /\ IF InList(search_history, history_calls[t].query)
       THEN /\ search_history' = Remove(search_history, history_calls[t].query)
            /\ CallStep(t, [history_calls[t] EXCEPT !.pc = "insert"])
       ELSE /\ CallStep(t, [history_calls[t] EXCEPT !.pc = "ValueError"])
            /\ UNCHANGED search_history
    /\ UNCHANGED searched

\* main.py:173
HistoryInsert(t) ==
    /\ history_calls[t].pc = "insert"
    /\ search_history' = <<history_calls[t].query>> \o search_history
    /\ CallStep(t, [history_calls[t] EXCEPT !.pc = "slice"])
    /\ UNCHANGED searched

\* main.py:176, the right-hand side: a new list
HistorySlice(t) ==
    /\ history_calls[t].pc = "slice"
    /\ CallStep(t, [pc |-> "store", query |-> history_calls[t].query,
                    sliced |-> Slice(search_history, HISTORY_LENGTH)])
    /\ UNCHANGED <<search_history, searched>>

\* main.py:176, the assignment to the global name
HistoryStore(t) ==
    /\ history_calls[t].pc = "store"
    /\ search_history' = history_calls[t].sliced
    /\ CallStep(t, [pc |-> "returned", query |-> history_calls[t].query])
    /\ UNCHANGED searched

NoCallYet == \A t \in Callers : history_calls[t] = NoCall
Fresh(query) == ~InList(searched, query)

\* searches for new queries, one after the other, fill the list; then one
\* request per thread, interleaved
NextCalls ==
    \/ \E query \in Queries :
           NoCallYet /\ Fresh(query) /\ InOrder(query) /\ AddToSearchHistory(query)
    \/ \E t \in Callers, query \in Queries : InOrder(query) /\ HistoryCall(t, query)
    \/ \E t \in Callers : HistoryCheck(t)
    \/ \E t \in Callers : HistoryRemove(t)
    \/ \E t \in Callers : HistoryInsert(t)
    \/ \E t \in Callers : HistorySlice(t)
    \/ \E t \in Callers : HistoryStore(t)

CallsSpec == Init /\ [][NextCalls]_vars

\* ------------------------------------------------ save_data, failing writes
\* main.py:111-112 fail: the temporary file cannot be written (OSError) or
\* json.dump rejects a value (TypeError).  open('w') has created or
\* truncated app_data.tmp; the exception leaves both with blocks, which
\* closes lock_fd, and the handler of main.py:124-127 or of main.py:135-136
\* logs it; save_data returns without reaching main.py:129-133.
SaveWriteFails(p) ==
    /\ save_pc[p] = "write"
    /\ temp_file' = EmptyFile
    /\ SaveAbort(p, "failed")
    /\ UNCHANGED <<download_progress, queueVars, req_pc, dlVars, envVars,
                   faults, received, raised, search_history, sideVars,
                   data_to_save, lock_file, temp_open>>

\* the processes of SharedSaveSpec, with writes that can fail
NextFailingSave ==
    \/ \E p \in Procs : SaveStep(p)
    \/ \E p \in Procs : SaveWriteFails(p)

FailingSaveSpec == SharedSaveInit /\ [][NextFailingSave]_vars

\* ================================================================ claims

\* C1: the active set never holds more than MAX_CONCURRENT_DOWNLOADS ids,
\* whatever the interleaving of submits and completions.
C1_ActiveWithinCapacity ==
    Cardinality(active_downloads) <= MAX_CONCURRENT_DOWNLOADS

\* two request threads race for the last free slot: one is inside
\* queue_download about to add its id, the other waits for queue_lock
C1_Witness ==
    /\ Cardinality(active_downloads) = MAX_CONCURRENT_DOWNLOADS - 1
    /\ \E j, i \in Jobs : req_pc[j] = "q_add" /\ req_pc[i] = "created"

\* C2: a job id is never in both download_queue and active_downloads, and it
\* occurs at most once in download_queue.
C2_PendingActiveDisjoint ==
    /\ PendingSet \cap active_downloads = {}
    /\ Cardinality(PendingSet) = Len(PendingIds)

\* the drain has moved one pending job into the active set while another
\* one is still waiting
C2_Witness ==
    \E t \in Jobs :
        /\ dl_pc[t] = "dr_launch"
        /\ dl_item[t][1] \in active_downloads
        /\ download_queue # <<>>

\* C3: at most MAX_CONCURRENT_DOWNLOADS jobs have status 'downloading' at
\* any instant; every submitted job that has not been admitted has status
\* 'queued' and waits in download_queue (or is the item the drain holds);
\* and a job changes from 'queued' to 'downloading' only by taking a slot
\* of the active set within the capacity.
Downloading == {j \in DOMAIN download_progress : Status(j) = "downloading"}
Submitted(j) == req_pc[j] = "done"
HeldByDrain(j) == \E t \in Jobs : dl_item[t][1] = j

C3_StateOk ==
    /\ Cardinality(Downloading) <= MAX_CONCURRENT_DOWNLOADS
    /\ \A j \in Jobs :
          (Submitted(j) /\ launches[j] = 0) =>
              /\ Status(j) = "queued"
              /\ j \in PendingSet \/ HeldByDrain(j)

C3_StepOk ==
    \A j \in DOMAIN download_progress :
        (Status(j) = "queued" /\ Status(j)' = "downloading") =>
            /\ j \in active_downloads'
            /\ Cardinality(active_downloads') <= MAX_CONCURRENT_DOWNLOADS

\* C3: the state part holds in every state and the step part on every step
C3_DownloadingWithinCapacity == [](C3_StateOk) /\ [][C3_StepOk]_vars

\* the capacity is used up by jobs that are downloading and two more
\* submitted jobs wait with status 'queued'
C3_Witness ==
    /\ Cardinality(Downloading) = MAX_CONCURRENT_DOWNLOADS
    /\ Cardinality({j \in Jobs : Submitted(j) /\ Status(j) = "queued"
                                   /\ j \in PendingSet}) >= 2

\* C4: N+k jobs submitted one after another with no completion in between
\* leave jobs 1..N 'downloading' and jobs N+1..N+k 'queued' in submission
\* order; the completion of one active job then turns exactly the head
\* pending job N+1 to 'downloading' and leaves the other pending jobs queued.
NumSubmitted == Cardinality({j \in Jobs : Submitted(j)})
IdsFrom(a, n) == [k \in 1..n |-> a + k - 1]
Beyond(m) == IF m > MAX_CONCURRENT_DOWNLOADS
             THEN m - MAX_CONCURRENT_DOWNLOADS ELSE 0

C4_CapacityScenario ==
    LET N == MAX_CONCURRENT_DOWNLOADS
        m == NumSubmitted
    IN  /\ (NoneFinished /\ NoRequestInFlight) =>
              /\ \A j \in 1..m :
                    Status(j) = IF j <= N THEN "downloading" ELSE "queued"
              /\ PendingIds = IdsFrom(N + 1, Beyond(m))
        /\ \A t \in Jobs :
              (dl_pc[t] = "done" /\ m > N) =>
                  /\ Status(N + 1) = "downloading"
                  /\ launches[N + 1] = 1
                  /\ \A j \in (N + 2)..m : Status(j) = "queued"
                  /\ PendingIds = IdsFrom(N + 2, Beyond(m) - 1)
                  /\ \A j \in (1..N) \ {t} : Status(j) = "downloading"

\* six jobs were submitted, one of the first four has completed, job 5 is
\* downloading and job 6 is still queued
C4_Witness ==
    /\ NumSubmitted = MAX_CONCURRENT_DOWNLOADS + 2
    /\ \E t \in 1..MAX_CONCURRENT_DOWNLOADS : dl_pc[t] = "done"
    /\ Status(MAX_CONCURRENT_DOWNLOADS + 1) = "downloading"
    /\ Status(MAX_CONCURRENT_DOWNLOADS + 2) = "queued"

\* C5: a completion that finds download_queue non-empty admits exactly one
\* pending job (the statement of the claim; the code does not keep it).
C5_CompletionAdmitsOne ==
    [][\A t \in Jobs :
          (dl_pc[t] = "dr_loop" /\ dl_pc'[t] = "done" /\ had_pending[t]) =>
              admits[t] = 1]_vars

\* C6: no job is admitted while a job submitted earlier is still waiting in
\* download_queue (the statement of the claim; the code does not keep it).
C6_StartInSubmissionOrder ==
    [][\A j \in Jobs :
          (launches[j] = 0 /\ launches'[j] = 1) =>
              \A i \in PendingSet : ~(i < j)]_vars

C8_RestoredEventuallyAdmitted ==
    []<>(\A j \in Jobs : (restarts > 0 /\ j \in PendingSet) => launches[j] > 0)

\* C9: on every way out of download_file_thread the thread removes its id
\* from active_downloads and calls process_download_queue exactly once.
AfterFinally(j) ==
    dl_pc[j] \in {"drain", "dr_loop", "dr_add", "dr_launch", "done"}

C9_CompletionHookOnce ==
    \A j \in Jobs :
        /\ drain_calls[j] <= 1
        /\ AfterFinally(j) => j \notin active_downloads
        /\ dl_pc[j] = "done" => drain_calls[j] = 1
        /\ (launches[j] > 0 /\ Status(j) \in {"completed", "error"}) =>
              dl_pc[j] \in {"finally", "drain", "dr_loop", "dr_add",
                            "dr_launch", "done"}

\* a thread whose download_file_thread was left by an exception has ended
\* after discarding its id and draining once, next to one that failed with
\* a caught error or completed
C9_Witness ==
    \E j \in Jobs :
        /\ escaped[j]
        /\ dl_pc[j] = "done"
        /\ drain_calls[j] = 1
        /\ j \notin active_downloads
        /\ \E k \in Jobs : k # j /\ dl_pc[k] = "done" /\ drain_calls[k] = 1

\* C10: every status change follows one of the edges of the job state machine.
ClaimedEdges ==
    {<<"starting", "queued">>, <<"starting", "downloading">>,
     <<"queued", "downloading">>, <<"downloading", "moving">>,
     <<"moving", "completed">>, <<"downloading", "completed">>,
     <<"downloading", "error">>}

StatusChangesWithin(edges) ==
    \A j \in DOMAIN download_progress :
        Status(j)' # Status(j) => <<Status(j), Status(j)'>> \in edges

Has(j) == j \in DOMAIN download_progress
Rec(j) == download_progress[j]

\* C11: a download whose body has been streamed to the end (main.py:898) and
\* whose file is there ends with status 'completed' and progress 100, with
\* ENABLE_AUTO_MOVE on and off (the statement of the claim; the code does
\* not keep it).
C11_StreamedEndsCompleted ==
    \A j \in Jobs :
        (dl_pc[j] = "exists") ~>
            (Has(j) /\ \/ Rec(j).status = "completed"
                          /\ Rec(j).progress = Percent(100)
                       \/ Rec(j).error = "File not found after download")

\* C12: with ENABLE_AUTO_MOVE on, a job whose move to the completed
\* directory failed carries the move_error annotation and has the final
\* status 'completed' (the statement of the claim; the code does not keep it).
C12_MoveFailureKeepsCompleted ==
    \A j \in Jobs :
        (Has(j) /\ "move_error" \in DOMAIN Rec(j)) =>
            /\ ENABLE_AUTO_MOVE
            /\ dl_pc[j] \notin {"stream", "chunks", "exists", "move"}
            /\ Rec(j).status = "completed"

\* C13: a download whose request or streaming loop raised an exception.
Raised(j) == raised[j] # NoException

\* msg is the text, or the text after the prefix of main.py:921
Contains(msg, text) == \E pre \in {"", "Network error: "} : msg = pre \o text

ReturnedNormally(j) ==
    /\ ~escaped[j]
    /\ dl_pc[j] \in {"finally", "drain", "dr_loop", "dr_add", "dr_launch", "done"}

\* C13 as stated: after any exception in the request or the streaming loop
\* the job has status 'error' and a non-empty error message that contains
\* the exception's text, and download_file_thread has returned normally
C13_ErrorWithNonEmptyMessage ==
    \A j \in Jobs :
        Raised(j) =>
            /\ Has(j) /\ Rec(j).status = "error"
            /\ Rec(j).error # None /\ Rec(j).error # ""
            /\ Contains(Rec(j).error, raised[j].text)
            /\ ReturnedNormally(j)

\* C13 amended: the message contains the exception's text; it is non-empty
\* for a RequestException and for every exception that has a text, and it
\* is the empty string for another exception without a text
C13_ErrorWithExceptionText ==
    \A j \in Jobs :
        Raised(j) =>
            /\ Has(j) /\ Rec(j).status = "error"
            /\ Rec(j).error # None
            /\ Contains(Rec(j).error, raised[j].text)
            /\ (raised[j].kind = "RequestException" \/ raised[j].text # "")
                   => Rec(j).error # ""
            /\ (raised[j].kind = "Exception" /\ raised[j].text = "")
                   => Rec(j).error = ""
            /\ ReturnedNormally(j)

\* a network error with a text interrupted a stream that had delivered
\* chunks, and the thread has ended
C13_Witness ==
    \E j \in Jobs :
        /\ raised[j] = [kind |-> "RequestException", text |-> "timed out"]
        /\ received[j] # <<>>
        /\ Rec(j).error = "Network error: timed out"
        /\ dl_pc[j] = "done"

\* C14: once the status of a job is 'completed' or 'error', its status,
\* downloaded, total and progress never change again, whatever the other
\* jobs and the queue do.
Terminal(j) == Has(j) /\ Rec(j).status \in {"completed", "error"}

BodyEnded(j) == dl_pc[j] \notin {"none", "stream", "chunks"} /\ ~Raised(j)

C15_BytesStateOk ==
    \A j \in Jobs :
        Has(j) =>
            /\ Rec(j).downloaded = Sum(received[j])
            /\ (BodyEnded(j) /\ Sum(received[j]) = Rec(j).total) =>
                   /\ Rec(j).downloaded = Rec(j).total
                   /\ Rec(j).progress = Percent(100)

C15_BytesStepOk ==
    \A j \in DOMAIN download_progress :
        download_progress'[j].downloaded >= Rec(j).downloaded

\* C15: the state part in every state, the step part on every step
C15_ByteAccounting == [](C15_BytesStateOk) /\ [][C15_BytesStepOk]_vars

\* two or more chunks that add up to the declared length were received and
\* the job is 'completed'
C15_Witness ==
    \E j \in Jobs :
        /\ Has(j) /\ Len(received[j]) >= 2
        /\ Rec(j).total > 0 /\ Sum(received[j]) = Rec(j).total
        /\ Rec(j).status = "completed" /\ dl_pc[j] = "done"

\* C16: in every reachable state the progress of every job lies between 0
\* and 100 inclusive (the statement of the claim; the code does not keep it).
C16_ProgressWithinRange ==
    \A j \in Jobs :
        Has(j) =>
            LET p == Rec(j).progress
            IN  0 <= p[1] /\ p[1] <= 100 * p[2]

\* C17: for a response without content-length, total stays 0, progress is
\* 0 after every chunk while downloaded grows by the size of each chunk,
\* and the job ends with status 'completed' (the statement of the claim;
\* the code does not keep its last part).
NoLength(j) == Has(j) /\ dl_pc[j] \notin {"none", "stream"} /\ Rec(j).total = 0

C17_NoLengthStateOk ==
    \A j \in Jobs :
        NoLength(j) =>
            /\ dl_pc[j] = "chunks" =>
                   /\ Rec(j).progress = Percent(0)
                   /\ Rec(j).downloaded = Sum(received[j])
            /\ (dl_pc[j] = "done" /\ ~Raised(j) /\ Rec(j).error = None) =>
                   Rec(j).status = "completed"

C17_NoLengthStepOk ==
    \A j \in Jobs :
        NoLength(j) => download_progress'[j].total = 0

C17_NoContentLength == [](C17_NoLengthStateOk) /\ [][C17_NoLengthStepOk]_vars

\* C18: save() followed by load() in a fresh instance.
StatusesOf(dp) == [j \in DOMAIN dp |-> dp[j].status]

\* a fresh instance that loads the file has the job statuses, the pending
\* order and the active ids of the memory of Self
RoundTrip(file) ==
    /\ StatusesOf(LoadedProgress(file)) = StatusesOf(download_progress)
    /\ PendingIdsOf(LoadedQueue(file)) = PendingIds
    /\ LoadedActive(file) = active_downloads

\* the k-th save_data call of process p has returned
Returned(p, k) ==
    /\ k \in 1..Len(save_log[p])
    /\ k = Len(save_log[p]) => save_pc[p] = "idle"

\* C18 as stated: after every save the snapshot loads to the saved state,
\* whatever snapshot file existed before
C18_RoundTripAnyFile ==
    \A k \in 1..MaxSaves :
        Returned(Self, k) => RoundTrip(save_log[Self][k].file)

\* C18 amended: it does so when the memory holds a job, a pending item, an
\* active id or a search, or when no snapshot existed; a save of an empty
\* memory leaves an existing snapshot as it was
C18_RoundTripWhenSaved ==
    \A k \in 1..MaxSaves :
        Returned(Self, k) =>
            LET e == save_log[Self][k]
            IN  IF AnyData(DataToSave) \/ e.before = NoFile
                THEN e.result = "saved" /\ RoundTrip(e.file)
                ELSE e.result = "skipped_empty" /\ e.file = e.before

\* a memory with two pending jobs was saved over the snapshot of another
\* process
C18_Witness ==
    /\ Returned(Self, 1)
    /\ save_log[Self][1].before = StaleData
    /\ save_log[Self][1].result = "saved"
    /\ save_log[Self][1].file # StaleData
    /\ Len(download_queue) = 2

\* C19: two save() calls in a row with no state change in between leave a
\* snapshot that loads to the same state as after the first call, and the
\* second call ends normally.
LoadedState(file) ==
    <<LoadedProgress(file), LoadedQueue(file), LoadedActive(file),
      LoadedHistory(file)>>

C19_SaveTwiceSameState ==
    (Returned(Self, 1) /\ Returned(Self, 2)) =>
        /\ LoadedState(save_log[Self][2].file) = LoadedState(save_log[Self][1].file)
        /\ save_log[Self][2].result \in {"saved", "skipped_empty"}

\* both calls wrote the snapshot of a memory with a pending job and an
\* active id, the first one over the snapshot of another process
C19_Witness ==
    /\ Returned(Self, 2)
    /\ save_log[Self][1].before = StaleData
    /\ save_log[Self][1].result = "saved"
    /\ save_log[Self][2].result = "saved"
    /\ download_queue # <<>> /\ active_downloads # {}

\* C20: a save() that finds the lock held by another process returns at
\* once and normally, writes neither the temporary file nor the snapshot,
\* and leaves the lock file and the lock of its holder as they are.
C20_LockedSaveSkips ==
    [][\A p \in Procs :
          (save_pc[p] = "flock" /\ LockHeldByOther(p) /\ save_pc'[p] # "flock") =>
              /\ save_pc'[p] = "idle"
              /\ Call(p)'.result = "skipped_locked"
              /\ snapshot' = snapshot
              /\ temp_file' = temp_file
              /\ lock_file' = lock_file
              /\ \A q \in Procs \ {p} :
                    flocked'[q] = flocked[q] /\ lock_fd'[q] = lock_fd[q]]_vars

\* a save has returned because the lock was held, while the holder is
\* still writing under its lock and the lock file is in place
C20_Witness ==
    \E p, q \in Procs :
        /\ p # q
        /\ save_log[p] # <<>> /\ Returned(p, Len(save_log[p]))
        /\ Call(p).result = "skipped_locked"
        /\ flocked[q] /\ lock_file = lock_fd[q]
        /\ save_pc[q] \in {"write", "replace"}

\* C21: across the processes that share one snapshot, at most one process
\* at a time is between acquiring the advisory lock and finishing the
\* rename onto the snapshot (the statement of the claim; the deletion of
\* the lock file at the end of save_data breaks it).
Writing(p) == flocked[p] /\ save_pc[p] \in {"check", "write", "replace"}

C21_OneWriterAtATime ==
    \A p, q \in Procs : (Writing(p) /\ Writing(q)) => p = q

\* C22: the snapshot path is absent or holds one complete snapshot written
\* by a single save(), so a load at any moment reads no truncated, partial
\* or interleaved text (the statement of the claim; two writers inside the
\* locked section break it).
C22_SnapshotAbsentOrComplete == snapshot = NoFile \/ Complete(snapshot)

\* C23: when load() fails on a corrupt, partially written or structurally
\* invalid snapshot, the progress store, the pending queue, the active set
\* and the search history are all left empty (the statement of the claim;
\* the merges done before the failing one stay).
C23_FailedLoadLeavesEmpty ==
    load_result = "failed" =>
        /\ DOMAIN download_progress = {}
        /\ download_queue = <<>>
        /\ active_downloads = {}
        /\ search_history = <<>>

\* C24: after any sequence of add_to_search_history calls, each run to
\* completion, the recent-search list has at most 5 entries and no
\* duplicate, and lists the queries of the calls most recent first.
RECURSIVE RecentFirst(_)
RecentFirst(calls) ==
    IF calls = <<>> THEN <<>>
    ELSE LET last == calls[Len(calls)]
         IN  <<last>> \o SelectSeq(RecentFirst(SubSeq(calls, 1, Len(calls) - 1)),
                                   LAMBDA q : q # last)

C24_HistoryRecentFirst ==
    /\ Len(search_history) <= 5
    /\ \A i, k \in 1..Len(search_history) :
           search_history[i] = search_history[k] => i = k
    /\ \A i \in 1..Len(search_history) :
           search_history[i] = RecentFirst(searched)[i]
    /\ Len(search_history) < 5 =>
           Len(search_history) = Len(RecentFirst(searched))

\* a query was searched, then five other ones, one of them twice: the list
\* holds the five, the repeated one once, and the first query is gone
C24_Witness ==
    /\ Len(searched) > 5
    /\ Len(RecentFirst(searched)) = 6
    /\ \E i \in 2..(Len(searched) - 2) : searched[i] = searched[Len(searched)]
    /\ search_history[1] = searched[Len(searched)]
    /\ \A i \in 1..Len(search_history) : search_history[i] # searched[1]
    /\ Len(search_history) = 5

\* C25: a batch payload that is invalid (unparseable, not a list, empty,
\* or a list with an entry that is not a {link, title} record) is rejected
\* with a user-visible message before any job is created or submitted (the
\* statement of the claim; the entries of the list are not validated).
InvalidPayload(payload) ==
    \/ payload.form # "list"
    \/ payload.items = <<>>
    \/ \E i \in 1..Len(payload.items) : payload.items[i] # "episode"

C25_InvalidBatchRejected ==
    (flashed # NoFlash /\ InvalidPayload(episodes_data)) =>
        /\ flashed.category = "error"
        /\ DOMAIN download_progress = {}
        /\ download_queue = <<>> /\ active_downloads = {}

\* C26: a listing that runs concurrently with a download never reports for
\* a job a combination of field values that mixes the state before and the
\* state after a single update of that job: the row it reports is that of
\* the record before the update or that of the record after it (the
\* statement of the claim; the fields are read one by one without a lock).
C26_ListingNeverMixes ==
    Listed => listing.row \in {Row(listing.before), Row(listing.after)}

\* C27: when the download of one job fails, no field of any other job's
\* record changes as a result, and the only change to the queue
\* bookkeeping is the removal of the failed id from the active set,
\* followed by the normal drain of the pending queue.
OthersUntouched(ids) ==
    /\ DOMAIN download_progress' = DOMAIN download_progress
    /\ \A i \in DOMAIN download_progress \ ids :
           download_progress'[i] = download_progress[i]

QueueUntouched ==
    download_queue' = download_queue /\ active_downloads' = active_downloads

\* the step in which the handlers of download_file_thread record a failure
FailureStep(j) ==
    Has(j) /\ Rec(j).status # "error" /\ download_progress'[j].status = "error"

\* a step of the thread of a failed job in its finally block
AfterFailureStep(j) ==
    Has(j) /\ Rec(j).status = "error" /\ j \in Finishing
        /\ dl_pc'[j] # dl_pc[j]

C27_FailureTouchesNothingElse ==
    [][\A j \in Jobs :
          /\ FailureStep(j) => OthersUntouched({j}) /\ QueueUntouched
          /\ AfterFailureStep(j) =>
                /\ download_progress'[j] = download_progress[j]
                /\ j \notin active_downloads'
                /\ \A k \in 1..Len(download_queue') : download_queue'[k][1] # j
                /\ CASE dl_pc[j] = "finally" ->
                            /\ OthersUntouched({})
                            /\ download_queue' = download_queue
                            /\ active_downloads' = active_downloads \ {j}
                     [] dl_pc[j] = "drain" ->
                            OthersUntouched({}) /\ QueueUntouched
                     [] dl_pc[j] = "dr_loop" /\ dl_pc'[j] = "dr_add" ->
                            /\ OthersUntouched({})
                            /\ download_queue' = Tail(download_queue)
                            /\ dl_item'[j] = Head(download_queue)
                            /\ active_downloads' = active_downloads
                     [] dl_pc[j] = "dr_add" ->
                            /\ OthersUntouched({})
                            /\ download_queue' = download_queue
                            /\ active_downloads' =
                                   active_downloads \cup {dl_item[j][1]}
                     [] dl_pc[j] = "dr_launch" ->
                            /\ OthersUntouched({dl_item[j][1]})
                            /\ download_progress'[dl_item[j][1]] =
                                   Update(download_progress[dl_item[j][1]],
                                          [status |-> "downloading"])
                            /\ QueueUntouched
                     [] OTHER -> OthersUntouched({}) /\ QueueUntouched]_vars

\* the thread of a job that failed with an exception has left the active
\* set and admitted the waiting job in its drain, while the other
\* downloads go on
C27_Witness ==
    \E j, i \in Jobs :
        /\ Has(j) /\ Rec(j).status = "error" /\ Raised(j)
        /\ dl_pc[j] = "dr_loop" /\ admits[j] = 1
        /\ j \notin active_downloads
        /\ i # j /\ dl_pc[i] = "stream" /\ i \in active_downloads
        /\ Cardinality(active_downloads) = MAX_CONCURRENT_DOWNLOADS

\* C28: in the deletion and in the retrieval route, a filename with a
\* parent-directory segment or a leading '/' is rejected and no filesystem
\* call is made for the request.
Traversal(filename) ==
    \/ filename.absolute
    \/ \E k \in 1..Len(filename.segments) : filename.segments[k] = ".."

C28_TraversalRejectedBeforeFilesystem ==
    (request.route \in {"download_file", "delete_file"} /\ Traversal(request.filename))
        => /\ fs_calls = <<>>
           /\ response.status # 200
           /\ "authenticated" \in request.cookie => response.status \in {400, 404}

\* C29: with LOGIN_REQUIRED set to false, a request to a protected route from
\* a session that never logged in is answered with status 200.
C29_DisabledAuthServes ==
    IF request.route \in Routes /\ request.cookie = {} /\ app_config # <<>>
    THEN app_config.LOGIN_REQUIRED = FALSE => response.status = 200
    ELSE TRUE

\* C30: every job has its download thread launched at most once over its
\* lifetime, and exactly once when it is admitted (by its submit or by a
\* drain), with the id, url and filename handed to queue_download.
\* launches counts the Thread(...).start() calls of main.py:834-836 and
\* 852-854 in the running process, launched_before those of the processes
\* before it.
LifetimeLaunches(id) == launched_before[id] + launches[id]

C30_LaunchedOnceOverLifetime == \A id \in Jobs : LifetimeLaunches(id) <= 1

\* C31: of a batch whose entries are {link, title} objects, every entry that
\* carries a link and whose sourceUrl request gives a URL creates one job,
\* which is submitted to the queue before the next entry is taken up; an
\* entry without a link or whose request fails creates no job, and the loop
\* goes on to the end of the list.  A batch of k entries that all resolve
\* ends with exactly k jobs, created and submitted in list order.
ObjectsOnly ==
    /\ episodes_data.form = "list"
    /\ \A i \in 1..Len(episodes_data.items) :
           episodes_data.items[i] \in {"episode", "no_link"}

Resolved == {i \in 1..Len(resolved) : resolved[i].outcome = "ok"}
JobsOf(entries) == UNION {resolved[i].jobs : i \in entries}
InQueueing(j) == req_pc[j] = "done" /\ j \in active_downloads \cup PendingSet

C31_OneJobPerResolvedEntry ==
    (ObjectsOnly /\ batch_pc \notin {"none", "start"}) =>
        /\ Len(resolved) <= Len(episodes_data.items)
        /\ \A i \in 1..Len(resolved) :
               /\ episodes_data.items[i] = "no_link" <=> resolved[i].outcome = "no_link"
               /\ Cardinality(resolved[i].jobs) = IF i \in Resolved THEN 1 ELSE 0
        /\ DOMAIN download_progress = JobsOf(Resolved)
        /\ Cardinality(DOMAIN download_progress) = Cardinality(Resolved)
        /\ \A i, k \in Resolved :
               i < k => /\ \A a \in resolved[i].jobs, b \in resolved[k].jobs : a < b
                        /\ \A a \in resolved[i].jobs : InQueueing(a)
        /\ \A m, n \in 1..Len(PendingIds) : m < n => PendingIds[m] < PendingIds[n]
        /\ batch_pc = "done" =>
               /\ Batch.status = "completed"
               /\ Len(resolved) = Len(episodes_data.items)
               /\ \A j \in DOMAIN download_progress : InQueueing(j)
               /\ Batch.successful_downloads = Cardinality(Resolved)

\* a finished batch of five entries: one without a link, one whose request
\* failed, three that resolved, and all five resolved in another run
C31_Witness ==
    /\ ObjectsOnly /\ batch_pc = "done" /\ Len(resolved) = MaxEpisodes
    /\ \E i, k \in 1..Len(resolved) :
           /\ i < k /\ k < Len(resolved)
           /\ resolved[i].outcome = "no_link"
           /\ resolved[k].outcome \in {"no_url", "exception"}
    /\ Cardinality(Resolved) = 3

\* C32: a batch record always has successful_downloads <= processed_episodes
\* <= total_episodes, and once its status is 'completed' processed_episodes
\* equals total_episodes.
C32_BatchCountsOrdered ==
    \A id \in DOMAIN season_processing :
        LET b == season_processing[id]
        IN /\ 0 <= b.successful_downloads
           /\ b.successful_downloads <= b.processed_episodes
           /\ b.processed_episodes <= b.total_episodes
           /\ b.status = "completed" => b.processed_episodes = b.total_episodes

\* a completed batch in which some entries, not all, became jobs
C32_Witness ==
    \E id \in DOMAIN season_processing :
        /\ season_processing[id].status = "completed"
        /\ season_processing[id].total_episodes = MaxEpisodes
        /\ season_processing[id].successful_downloads \in 1..(MaxEpisodes - 1)

\* C33: a per-chunk progress update of a job changes only the progress,
\* downloaded, speed and size fields of that job's record; its status,
\* filename, start_time, error and total fields and every other job's record
\* stay as they are.
ChunkFields == {"progress", "downloaded", "speed", "size"}

C33_ChunkUpdateFrame ==
    [][\A j \in Jobs :
          received'[j] # received[j] =>
              /\ DOMAIN download_progress' = DOMAIN download_progress
              /\ \A i \in DOMAIN download_progress \ {j} :
                     download_progress'[i] = download_progress[i]
              /\ DOMAIN download_progress'[j] = DOMAIN download_progress[j]
              /\ {"status", "filename", "start_time", "error", "total"}
                     \subseteq DOMAIN download_progress[j]
              /\ \A k \in DOMAIN download_progress[j] \ ChunkFields :
                     download_progress'[j][k] = download_progress[j][k]]_vars

\* a job has received a chunk while the record of another job exists
C33_Witness ==
    \E j \in Jobs, i \in DOMAIN download_progress :
        /\ i # j /\ Len(received[j]) = 1
        /\ download_progress[j].downloaded = MaxChunk
        /\ download_progress[j].size = FormatSize(MaxChunk)
        /\ download_progress[j].status = "downloading"
        /\ download_progress[i].status \in {"queued", "downloading", "error"}

\* C34: in every state the error field of a job's record is non-null if and
\* only if the status of the record is 'error'.
C34_ErrorIffErrorStatus ==
    \A j \in DOMAIN download_progress :
        download_progress[j].error # None <=> download_progress[j].status = "error"

\* C35: every queue_status response has active count + free slots equal to
\* the capacity and free slots >= 0, also when submissions and completions
\* run while it is computed (the statement of the claim; the active set is
\* read twice).  That its active and pending counts held together at one
\* instant is the second half of the claim; the first already fails.
C35_StatusAddsUp ==
    Responded =>
        /\ QueueStatus.active_downloads + QueueStatus.available_slots
               = QueueStatus.max_concurrent
        /\ QueueStatus.available_slots >= 0

\* C36: fetch() on an Endpoint whose post_function was supplied with a value
\* that is not callable raises instead of returning a result, whatever the
\* value (the statement of the claim; values whose truth value is false are
\* never looked at).
C36_NonCallableRaises ==
    (/\ fetched # NoFetch
     /\ endpoint.post_function # "None"
     /\ ~Callable(endpoint.post_function))
        => fetched.ended = "raised"

\* C37: in every reachable state a job's status is 'queued' if and only if
\* its id is in the pending queue, whether the record was created by a
\* single submission ('starting') or by the batch loop ('queued').
C37_QueuedIffPending ==
    \A j \in DOMAIN download_progress : Status(j) = "queued" <=> j \in PendingSet

\* C38: a snapshot written by save_data while downloads are still running
\* is a consistent cut of the queue state: no id is in both the saved
\* pending list and the saved active list, every id of the saved pending
\* list has saved status 'queued', and every id with saved status
\* 'downloading' is in the saved active list.
SavedPending == LET ids == PendingIdsOf(LoadedQueue(snapshot))
                IN {ids[k] : k \in 1..Len(ids)}
SavedStatus(j) == IF j \in DOMAIN LoadedProgress(snapshot)
                  THEN LoadedProgress(snapshot)[j].status ELSE "absent"

C38_SnapshotConsistentCut ==
    /\ SavedPending \cap LoadedActive(snapshot) = {}
    /\ \A j \in SavedPending : SavedStatus(j) = "queued"
    /\ \A j \in Jobs : SavedStatus(j) = "downloading" =>
                           j \in LoadedActive(snapshot)

\* C39: when add_to_search_history has run concurrently in two request
\* threads, the recent-search list has no duplicate query and at most
\* HISTORY_LENGTH entries, and the queries of both calls are in it, one of
\* them first (no update is lost).
Ended(t) == history_calls[t].pc \in {"returned", "ValueError"}

C39_ConcurrentHistoryKeepsBoth ==
    (\A t \in Callers : Ended(t)) =>
        /\ \A i, k \in 1..Len(search_history) :
               search_history[i] = search_history[k] => i = k
        /\ Len(search_history) <= HISTORY_LENGTH
        /\ \A t \in Callers : InList(search_history, history_calls[t].query)
        /\ \E t \in Callers : search_history[1] = history_calls[t].query

\* C40: every save() that acquires the advisory lock releases it on every
\* path out of save_data, also when serializing or renaming the snapshot
\* fails: a process holds the lock only inside the with block of
\* main.py:102-122, and a save() that finds the lock held finds its holder
\* inside that block, so a later save() of any process can lock again.
InLockedSection(p) == save_pc[p] \in {"check", "write", "replace", "close"}

C40_LockReleasedOnEveryPath ==
    /\ \A p \in Procs : ~InLockedSection(p) =>
                            ~flocked[p] /\ (save_pc[p] # "flock" => lock_fd[p] = NoInode)
    /\ \A p \in Procs :
           (save_pc[p] = "flock" /\ LockHeldByOther(p)) =>
               \E q \in Procs \ {p} : InLockedSection(q) /\ lock_fd[q] = lock_fd[p]

\* a process whose first save failed while it wrote the temporary file
\* holds the lock again in its second save
C40_Witness ==
    \E p \in Procs :
        /\ Len(save_log[p]) = 2
        /\ save_log[p][1].result = "failed"
        /\ flocked[p] /\ save_pc[p] = "replace"
        /\ \A q \in Procs \ {p} : save_log[q] = <<>>

====
